---- MODULE Spec2Model ----
(***************************************************************************)
(* A model of the uploadthing file viewer.                                 *)
(*                                                                         *)
(*   - the listing/deletion facade: src/app/api/uploadthing/route.ts,      *)
(*     handlers GET, DELETE and PATCH (lines 1-146; the file holds a       *)
(*     second, older copy of the three handlers from line 148 on, which    *)
(*     is not the one served under /api/uploadthing and is not modelled);  *)
(*   - the viewer component FileViewer: src/unnamed/part_000, lines 1-860. *)
(*                                                                         *)
(* Text is modelled in two ways.  Opaque text (keys, ids, urls, messages)  *)
(* is a TLA+ string.  Text the code takes apart (file names and MIME       *)
(* types, which getFileType splits and lowercases) is a sequence of        *)
(* one-character strings.  The Turkish messages of the source are written  *)
(* without diacritics, since the module is ASCII.                          *)
(***************************************************************************)
EXTENDS Integers, Sequences, FiniteSets, TLC

VARIABLES
    \* ---- the provider and the facade (route.ts)
    store,        \* the provider's files, in the order listFiles returns them
    request,      \* the request the facade handled last
    response,     \* the response it returned: [status, body]
    calls,        \* the provider calls made while handling that request
    uncaught,     \* TRUE when the handler ended by throwing
    \* ---- classification of one listed record (part_000: getFileType, loadFiles' map)
    raw,          \* a record of the list response, as received
    stage,        \* "raw", "classified", "threw" or "reclassified"
    classified,   \* the record loadFiles' map callback makes of it
    reclassified, \* getFileType applied to that record
    \* ---- the viewer (part_000: FileViewer): its React state
    files, loading, error, selectedFile, filter, fileToDelete,
    showDeleteSuccess, deletedCountInfo, textContent,
    participants, participantsLoading, participantsError,
    \* ---- the viewer: its asynchronous functions under way
    pcLoad,         \* loadFiles: "idle", "fetch" (awaiting the list), "texts", "done"
    textQueue,      \* loadFiles: the text files whose content is still to fetch
    textContentMap, \* loadFiles: its local textContentMap
    pcParticipants, \* loadParticipants: "idle", "list", "json", "done"
    participantsFile, \* loadParticipants: the file whose content is awaited
    deletes,        \* handleDeleteFile calls awaiting deleteFile: [file, selectedFile]
    timers,         \* pending setTimeout(() => setShowDeleteSuccess(false), 4000)
    lastAlert,      \* the text of the last alert(), Null before any
    \* ---- the viewer: the bulk operations
    isDownloadingAll, isDeletingAll, showDeleteAllConfirm,   \* React state
    bulkDelete,     \* the handleDeleteAllFiles call under way
    bulkDownload,   \* the downloadAllFiles call under way
    \* ---- the viewer: time, in the specification that measures it
    timerDue,       \* the ticks left to each pending notice timer, oldest first
    noticeAge,      \* the ticks since the notice now visible was shown last
    \* ---- the viewer's environment
    served,         \* the records /api/uploadthing lists at present
    listed          \* data.files of the list response loadFiles received

facadeVars == <<store, request, response, calls, uncaught>>

classifyVars == <<raw, stage, classified, reclassified>>

viewerState == <<files, loading, error, selectedFile, filter, fileToDelete,
                 showDeleteSuccess, deletedCountInfo, textContent,
                 participants, participantsLoading, participantsError>>

bulkVars == <<isDownloadingAll, isDeletingAll, showDeleteAllConfirm, bulkDelete,
              bulkDownload>>

clockVars == <<timerDue, noticeAge>>

viewerVars == <<viewerState, pcLoad, textQueue, textContentMap, pcParticipants,
                participantsFile, deletes, timers, lastAlert, served, listed, bulkVars,
                clockVars>>

vars == <<facadeVars, classifyVars, viewerVars>>

-----------------------------------------------------------------------------
(* Values *)

\* JavaScript's null / undefined where a string is expected.  No key, id or
\* name of the model contains "<".
Null == "<null>"

\* JavaScript truthiness of a string-or-null value: `!v` is true for
\* null, undefined and "".
Truthy(v) == v # Null /\ v # ""

\* ---- bounds
MaxFiles == 2

Keys == {"a", "b", "c"}

\* The instants `new Date().toISOString()` can return, in ascending order.
Times == <<"T1", "T2">>

\* What n successive reads of the clock can return: the clock may advance
\* between two reads and never goes back.
ClockReadings(n) ==
    {[i \in 1..n |-> Times[q[i]]] :
        q \in {q \in [1..n -> 1..Len(Times)] :
                  \A i, k \in 1..n : i < k => q[i] <= q[k]}}

Range(s) == {s[i] : i \in 1..Len(s)}

RECURSIVE SeqsOver(_, _)
\* All sequences of distinct elements of S of length at most n.
SeqsOver(S, n) ==
    IF n = 0 THEN {<<>>}
    ELSE LET shorter == SeqsOver(S, n - 1)
         IN shorter \cup {Append(q, x) : q \in shorter, x \in S}

DistinctSeqsOver(S, n) ==
    {q \in SeqsOver(S, n) : \A i, j \in 1..Len(q) : i # j => q[i] # q[j]}

-----------------------------------------------------------------------------
(* The provider (UTApi), as the facade sees it *)

NameOfKey == [k \in Keys |->
    CASE k = "a" -> <<"p", ".", "j", "p", "g">>
      [] k = "b" -> <<"s", ".", "m", "p", "3">>
      [] OTHER   -> <<"c", ".", "e", "x", "e">>]

\* One file as utapi.listFiles() reports it.  customId is unset for some files.
ProviderFile(k) ==
    [id |-> "id-" \o k, key |-> k, name |-> NameOfKey[k], status |-> "Uploaded",
     customId |-> IF k = "b" THEN "custom-b" ELSE Null]

\* What a provider call can throw: an Error with a message, or (rarely) a value
\* that is no Error.
Thrown ==
    {[isError |-> TRUE, message |-> "fetch failed"],
     [isError |-> TRUE, message |-> "Invalid API key"],
     [isError |-> FALSE, message |-> "thrown string"]}

\* The outcomes of `await utapi.listFiles()`: an absent response, a response
\* with no `files`, a response with the stored files, or a throw.
ListFilesOutcomes ==
    {[kind |-> "return", isNull |-> TRUE, hasFiles |-> FALSE, files |-> <<>>],
     [kind |-> "return", isNull |-> FALSE, hasFiles |-> FALSE, files |-> <<>>],
     [kind |-> "return", isNull |-> FALSE, hasFiles |-> TRUE,
      files |-> [i \in 1..Len(store) |-> ProviderFile(store[i])]]}
    \cup {[kind |-> "throw", error |-> e] : e \in Thrown}

\* The outcomes of `await utapi.deleteFiles([fileKey])`.
DeleteFilesOutcomes ==
    {[kind |-> "return", success |-> TRUE],
     [kind |-> "return", success |-> FALSE]}
    \cup {[kind |-> "throw", error |-> e] : e \in Thrown}

\* The provider's files after deleteFiles([key]) ended with outcome o: the
\* file is gone when the provider reported success.
RECURSIVE Without(_, _)
Without(s, k) ==
    IF s = <<>> THEN <<>>
    ELSE IF Head(s) = k THEN Without(Tail(s), k)
    ELSE <<Head(s)>> \o Without(Tail(s), k)

StoreAfterDelete(s, key, o) ==
    IF o.kind = "return" /\ o.success THEN Without(s, key) ELSE s

-----------------------------------------------------------------------------
(* Requests *)

\* The query string as URLSearchParams holds it: name/value pairs in order.
Queries ==
    {<<>>,
     <<<<"key", "">>>>,
     <<<<"other", "a">>>>,
     <<<<"key", "a">>>>,
     <<<<"key", "b">>>>,
     <<<<"key", "c">>>>,
     <<<<"key", "b">>, <<"key", "a">>>>}

RECURSIVE SearchParamsGet(_, _)
\* searchParams.get(name): the first value of `name`, null when there is none.
SearchParamsGet(query, name) ==
    IF query = <<>> THEN Null
    ELSE IF Head(query)[1] = name THEN Head(query)[2]
    ELSE SearchParamsGet(Tail(query), name)

\* Request bodies (raw text), and what JSON.parse makes of the parseable ones.
Bodies == {"{}", " {\"name\":\"x\"} ", "{\"name\":\"x\"}", "not json", ""}

JsonValues ==
    [b \in {"{}", " {\"name\":\"x\"} ", "{\"name\":\"x\"}"} |->
        IF b = "{}" THEN [json |-> "object", fields |-> {}]
        ELSE [json |-> "object", fields |-> {<<"name", "x">>}]]

\* `await request.json()`: the parsed value, or a thrown SyntaxError.
RequestJson(body) ==
    IF body \in DOMAIN JsonValues
    THEN [kind |-> "return", value |-> JsonValues[body]]
    ELSE [kind |-> "throw",
          error |-> [isError |-> TRUE, message |-> "Unexpected token in JSON"]]

-----------------------------------------------------------------------------
(* The facade's handlers *)

\* NextResponse.json(body, {status}); the status is 200 when none is given.
Json(status, body) == [status |-> status, body |-> body]

\* error instanceof Error ? error.message : 'Bilinmeyen hata'
errorMessage(err) ==
    IF err.isError THEN err.message ELSE "Bilinmeyen hata"

\* One record of the list, as GET reshapes it; `now` is what new Date() returns
\* when this record is made.
formatFile(file, now) ==
    [id |-> file.id,
     key |-> file.key,
     name |-> file.name,
     url |-> "https://utfs.io/f/" \o file.key,
     status |-> file.status,
     customId |-> IF Truthy(file.customId) THEN file.customId ELSE Null,
     uploadedAt |-> now,
     type |-> "unknown",
     size |-> 0]

\* Mutant of formattedFiles: the list is returned in reverse order (as after a
\* sort on a field the provider lists in ascending order).
formattedFiles_Reversed(providerFiles, clock) ==
    [i \in 1..Len(providerFiles) |->
        formatFile(providerFiles[Len(providerFiles) + 1 - i], clock[i])]

\* response.files.map(file => ({...})): the clock is read once for each record,
\* in the list's order; clock[i] is the i-th reading.
formattedFiles(providerFiles, clock) ==
    [i \in 1..Len(providerFiles) |-> formatFile(providerFiles[i], clock[i])]

\* GET's catch block.
GETCatch(err) ==
    [uncaught |-> FALSE,
     response |-> Json(500, [success |-> FALSE,
                             error |-> "Dosyalar yuklenirken hata olustu",
                             details |-> errorMessage(err),
                             files |-> <<>>,
                             total |-> 0])]

\* Mutant of GETHandler: the guard tests only `!response`, so a response with no
\* `files` reaches `response.files.map`, which throws a TypeError.
GETHandler_NoFilesGuard(o, clock) ==
    IF o.kind = "throw" THEN GETCatch(o.error)
    ELSE IF o.isNull
    THEN [uncaught |-> FALSE,
          response |-> Json(200, [success |-> TRUE, files |-> <<>>, total |-> 0])]
    ELSE IF ~o.hasFiles
    THEN GETCatch([isError |-> TRUE,
                   message |-> "Cannot read properties of undefined (reading 'map')"])
    ELSE [uncaught |-> FALSE,
          response |-> Json(200, [success |-> TRUE,
                                  files |-> formattedFiles(o.files, clock),
                                  total |-> Len(formattedFiles(o.files, clock))])]

\* GET, given the outcome o of utapi.listFiles() and the readings of the clock
\* it makes, one for each listed file.
GETHandler(o, clock) ==
    IF o.kind = "throw" THEN GETCatch(o.error)
    ELSE IF o.isNull \/ ~o.hasFiles
    THEN [uncaught |-> FALSE,
          response |-> Json(200, [success |-> TRUE, files |-> <<>>, total |-> 0])]
    ELSE [uncaught |-> FALSE,
          response |-> Json(200, [success |-> TRUE,
                                  files |-> formattedFiles(o.files, clock),
                                  total |-> Len(formattedFiles(o.files, clock))])]

\* DELETE's catch block.
DELETECatch(err) ==
    [uncaught |-> FALSE,
     response |-> Json(500, [success |-> FALSE,
                             error |-> "Dosya silinirken hata olustu",
                             details |-> errorMessage(err)])]

\* Mutant of DELETECallsProvider: only a missing key is refused (`fileKey === null`),
\* so the empty key reaches the provider.
DELETECallsProvider_NullOnly(query) == SearchParamsGet(query, "key") # Null

\* Whether DELETE reaches utapi.deleteFiles for this query.
DELETECallsProvider(query) == Truthy(SearchParamsGet(query, "key"))

\* Mutant of DELETEHandler: a failure the provider reports is answered as a
\* server fault (500, through the catch block).
DELETEHandler_FailureAs500(query, o) ==
    LET fileKey == SearchParamsGet(query, "key") IN
    IF ~DELETECallsProvider(query)
    THEN [uncaught |-> FALSE,
          response |-> Json(400, [success |-> FALSE,
                                  error |-> "Dosya anahtari (key) gerekli"])]
    ELSE IF o.kind = "throw" THEN DELETECatch(o.error)
    ELSE IF o.success
    THEN [uncaught |-> FALSE,
          response |-> Json(200, [success |-> TRUE,
                                  message |-> "Dosya basariyla silindi",
                                  deletedKey |-> fileKey])]
    ELSE DELETECatch([isError |-> TRUE, message |-> "Dosya silinemedi"])

\* DELETE, given the query and the outcome o of utapi.deleteFiles([fileKey])
\* (o is read only when the call is made).
DELETEHandler(query, o) ==
    LET fileKey == SearchParamsGet(query, "key") IN
    IF ~DELETECallsProvider(query)
    THEN [uncaught |-> FALSE,
          response |-> Json(400, [success |-> FALSE,
                                  error |-> "Dosya anahtari (key) gerekli"])]
    ELSE IF o.kind = "throw" THEN DELETECatch(o.error)
    ELSE IF o.success
    THEN [uncaught |-> FALSE,
          response |-> Json(200, [success |-> TRUE,
                                  message |-> "Dosya basariyla silindi",
                                  deletedKey |-> fileKey])]
    ELSE [uncaught |-> FALSE,
          response |-> Json(400, [success |-> FALSE, error |-> "Dosya silinemedi"])]

\* Mutant of PATCHCatch: the error text is dropped for the generic one.
PATCHCatch_NoDetails(err) ==
    [uncaught |-> FALSE,
     response |-> Json(500, [success |-> FALSE,
                             error |-> "Dosya guncellenirken hata olustu",
                             details |-> "Bilinmeyen hata"])]

\* PATCH's catch block.
PATCHCatch(err) ==
    [uncaught |-> FALSE,
     response |-> Json(500, [success |-> FALSE,
                             error |-> "Dosya guncellenirken hata olustu",
                             details |-> errorMessage(err)])]

\* Mutant of PATCHHandler: the response does not echo the submitted body.
PATCHHandler_NoEcho(query, body) ==
    LET fileKey == SearchParamsGet(query, "key")
        parsed  == RequestJson(body)
    IN
    IF parsed.kind = "throw" THEN PATCHCatch(parsed.error)
    ELSE IF ~Truthy(fileKey)
    THEN [uncaught |-> FALSE,
          response |-> Json(400, [success |-> FALSE,
                                  error |-> "Dosya anahtari (key) gerekli"])]
    ELSE [uncaught |-> FALSE,
          response |-> Json(200, [success |-> TRUE,
                                  message |-> "Dosya bilgileri guncellendi",
                                  updatedKey |-> fileKey,
                                  updatedData |-> [json |-> "object", fields |-> {}]])]

\* PATCH: the key is read, then the body is parsed, then the key is checked.
PATCHHandler(query, body) ==
    LET fileKey == SearchParamsGet(query, "key")
        parsed  == RequestJson(body)
    IN
    IF parsed.kind = "throw" THEN PATCHCatch(parsed.error)
    ELSE IF ~Truthy(fileKey)
    THEN [uncaught |-> FALSE,
          response |-> Json(400, [success |-> FALSE,
                                  error |-> "Dosya anahtari (key) gerekli"])]
    ELSE [uncaught |-> FALSE,
          response |-> Json(200, [success |-> TRUE,
                                  message |-> "Dosya bilgileri guncellendi",
                                  updatedKey |-> fileKey,
                                  updatedData |-> parsed.value])]

\* The provider calls PATCH makes: none.
PATCHCalls(query, body) == <<>>

\* The facade before any request (and in the specifications that leave it alone).
FacadeIdle ==
    /\ store = <<>>
    /\ request = [method |-> "NONE", query |-> <<>>, body |-> ""]
    /\ response = Json(0, [success |-> FALSE])
    /\ calls = <<>>
    /\ uncaught = FALSE


-----------------------------------------------------------------------------
(* Text the viewer takes apart: sequences of one-character strings *)

\* An absent (undefined) text field.  It is no text: its one element is not a
\* character.
Absent == <<"<undefined>">>

\* JavaScript truthiness of a text-or-undefined value.
TruthyText(t) == t # Absent /\ t # <<>>

UpperCase == <<"A", "B", "C", "D", "E", "F", "G", "H", "I", "J", "K", "L", "M",
               "N", "O", "P", "Q", "R", "S", "T", "U", "V", "W", "X", "Y", "Z">>
LowerCase == <<"a", "b", "c", "d", "e", "f", "g", "h", "i", "j", "k", "l", "m",
               "n", "o", "p", "q", "r", "s", "t", "u", "v", "w", "x", "y", "z">>

\* String.prototype.toLowerCase, on ASCII text.
toLowerCaseChar(c) ==
    IF \E i \in 1..Len(UpperCase) : UpperCase[i] = c
    THEN LowerCase[CHOOSE i \in 1..Len(UpperCase) : UpperCase[i] = c]
    ELSE c

toLowerCase(t) == [i \in 1..Len(t) |-> toLowerCaseChar(t[i])]

\* t.split('.').pop(): the text after the last '.', all of t when it has none.
splitPop(t) ==
    LET dots == {i \in 1..Len(t) : t[i] = "."} IN
    IF dots = {} THEN t
    ELSE SubSeq(t, (CHOOSE i \in dots : \A j \in dots : j <= i) + 1, Len(t))

\* t.startsWith(prefix)
startsWith(t, prefix) ==
    Len(t) >= Len(prefix) /\ SubSeq(t, 1, Len(prefix)) = prefix

\* t.endsWith(suffix)
endsWith(t, suffix) ==
    Len(t) >= Len(suffix) /\ SubSeq(t, Len(t) - Len(suffix) + 1, Len(t)) = suffix

-----------------------------------------------------------------------------
(* The viewer: classification (getFileType) and the map callback of loadFiles *)

imageExtensions == {<<"j", "p", "g">>,
     <<"j", "p", "e", "g">>,
     <<"p", "n", "g">>,
     <<"g", "i", "f">>,
     <<"w", "e", "b", "p">>,
     <<"s", "v", "g">>,
     <<"b", "m", "p">>}
videoExtensions == {<<"m", "p", "4">>,
     <<"a", "v", "i">>,
     <<"m", "o", "v">>,
     <<"w", "m", "v">>,
     <<"f", "l", "v">>,
     <<"w", "e", "b", "m">>,
     <<"m", "k", "v">>}
audioExtensions == {<<"m", "p", "3">>,
     <<"w", "a", "v">>,
     <<"o", "g", "g">>,
     <<"f", "l", "a", "c">>,
     <<"a", "a", "c">>,
     <<"m", "4", "a">>}
textExtensions == {<<"t", "x", "t">>,
     <<"m", "d">>,
     <<"r", "t", "f">>,
     <<"l", "o", "g">>}

imagePrefix == <<"i", "m", "a", "g", "e", "/">>
videoPrefix == <<"v", "i", "d", "e", "o", "/">>
audioPrefix == <<"a", "u", "d", "i", "o", "/">>
textPrefix == <<"t", "e", "x", "t", "/">>

\* The types getFileType returns; null is NoType.
NoType == Null
FileTypes == {"image", "video", "audio", "text"}

\* file.name.split('.').pop()?.toLowerCase(), for a record with a name.
extensionOf(file) == toLowerCase(splitPop(file.name))

\* file.type?.toLowerCase(): undefined when the record has no type.
mimeTypeOf(file) == IF file.type = Absent THEN Absent ELSE toLowerCase(file.type)

\* mimeType?.startsWith(prefix): falsy when mimeType is undefined.
mimeStartsWith(mimeType, prefix) == mimeType # Absent /\ startsWith(mimeType, prefix)

\* getFileType(file).  `file.name.split` throws a TypeError when the record has
\* no name: the result is then [threw |-> TRUE].
getFileType(file) ==
    IF file.name = Absent THEN [threw |-> TRUE, type |-> NoType]
    ELSE LET extension == extensionOf(file)
             mimeType  == mimeTypeOf(file)
         IN
         IF mimeStartsWith(mimeType, imagePrefix) \/ extension \in imageExtensions
         THEN [threw |-> FALSE, type |-> "image"]
         ELSE IF mimeStartsWith(mimeType, videoPrefix) \/ extension \in videoExtensions
         THEN [threw |-> FALSE, type |-> "video"]
         ELSE IF mimeStartsWith(mimeType, audioPrefix) \/ extension \in audioExtensions
         THEN [threw |-> FALSE, type |-> "audio"]
         ELSE IF mimeStartsWith(mimeType, textPrefix) \/ extension \in textExtensions
         THEN [threw |-> FALSE, type |-> "text"]
         ELSE [threw |-> FALSE, type |-> NoType]

\* 'Isimsiz dosya', the name given to a record that has none.
defaultName == <<"I", "s", "i", "m", "s", "i", "z", " ", "d", "o", "s", "y", "a">>

\* An absent (undefined) number field.
NoNumber == -1

\* file.size || file.fileSize || 0
sizeOf(file) ==
    IF file.size # NoNumber /\ file.size # 0 THEN file.size
    ELSE IF file.fileSize # NoNumber /\ file.fileSize # 0 THEN file.fileSize
    ELSE 0

\* file.name || file.fileName || 'Isimsiz dosya'
nameOf(file) ==
    IF TruthyText(file.name) THEN file.name
    ELSE IF TruthyText(file.fileName) THEN file.fileName
    ELSE defaultName

\* The map callback of loadFiles: {...file, fileType: getFileType(file), size, name}.
\* getFileType is applied to the record as received.
mapFile(file) ==
    [threw |-> getFileType(file).threw,
     file |-> [key |-> file.key, url |-> file.url, type |-> file.type,
               fileName |-> file.fileName, fileSize |-> file.fileSize,
               fileType |-> getFileType(file).type,
               size |-> sizeOf(file),
               name |-> nameOf(file)]]

\* ---- the records a list response can hold
ListedNames ==
    {Absent,
     <<>>,
     <<"p", ".", "j", "p", "g">>,
     <<"P", ".", "J", "P", "G">>,
     <<"v", ".", "m", "p", "4">>,
     <<"s", ".", "m", "p", "3">>,
     <<"n", ".", "t", "x", "t">>,
     <<"c", ".", "e", "x", "e">>,
     <<"p", "n", "g">>,
     <<"a", ".", "j", "p", "g", ".", "m", "d">>,
     <<".", "l", "o", "g">>}

ListedFileNames == {Absent, <<"s", ".", "m", "p", "3">>}

ListedTypes ==
    {Absent,
     <<"u", "n", "k", "n", "o", "w", "n">>,
     <<"i", "m", "a", "g", "e", "/", "p", "n", "g">>,
     <<"V", "I", "D", "E", "O", "/", "M", "P", "4">>,
     <<"a", "u", "d", "i", "o", "/", "m", "p", "e", "g">>,
     <<"t", "e", "x", "t", "/", "p", "l", "a", "i", "n">>,
     <<"a", "p", "p", "l", "i", "c", "a", "t", "i", "o", "n", "/", "j", "s", "o", "n">>}

RawFile(key, name, fileName, type) ==
    [key |-> key, url |-> "https://utfs.io/f/" \o key, name |-> name,
     fileName |-> fileName, type |-> type, size |-> 0, fileSize |-> NoNumber]

RawFiles ==
    {RawFile("a", n, fn, t) : n \in ListedNames, fn \in ListedFileNames, t \in ListedTypes}

NoFile == RawFile("", Absent, Absent, Absent)

-----------------------------------------------------------------------------
(* The viewer: values *)

\* selectedFile / fileToDelete when null.
NullFile == [key |-> Null]

Filters == {"all", "image", "video", "audio", "text", "participants"}

EmptyMap == [k \in {} |-> ""]

\* ---- bounds
\* The longest list /api/uploadthing serves.
MaxListed == 2
\* The most handleDeleteFile calls awaiting their response at once.
MaxPendingDeletes == 1
\* The most notice timers pending when a bulk delete sets one more.
MaxTimers == 2
\* The most handleDeleteFile calls awaiting their response at once, where the
\* dialog's delete button is clicked repeatedly.
MaxConfirms == 2

\* The records the list can hold, in upload order.  Like the facade's they
\* carry type 'unknown' and size 0: "a" is an image, "c" has no supported type,
\* "d" is a text file, "e" has its name under fileName only, "j" is the
\* participants file.
ServedUniverse ==
    <<RawFile("a", <<"p", ".", "j", "p", "g">>, Absent, <<"u", "n", "k", "n", "o", "w", "n">>),
      RawFile("c", <<"c", ".", "e", "x", "e">>, Absent, <<"u", "n", "k", "n", "o", "w", "n">>),
      RawFile("d", <<"n", ".", "t", "x", "t">>, Absent, <<"u", "n", "k", "n", "o", "w", "n">>),
      RawFile("e", Absent, <<"s", ".", "m", "p", "3">>, <<"u", "n", "k", "n", "o", "w", "n">>),
      RawFile("j", <<"p", "a", "r", "t", "i", "c", "i", "p", "a", "n", "t", "s", ".", "j", "s", "o", "n">>, Absent, <<"u", "n", "k", "n", "o", "w", "n">>)>>

Reverse(q) == [i \in 1..Len(q) |-> q[Len(q) + 1 - i]]

\* The lists the provider can hold: at most MaxListed of the records, oldest
\* first or newest first.
ServedLists ==
    LET picks == {q \in DistinctSeqsOver(1..Len(ServedUniverse), MaxListed) :
                    \A i, k \in 1..Len(q) : i < k => q[i] < q[k]}
        oldestFirst == {[i \in 1..Len(q) |-> ServedUniverse[q[i]]] : q \in picks}
    IN oldestFirst \cup {Reverse(q) : q \in oldestFirst}

\* No handleDeleteAllFiles call was made from the bulk dialog (pc "idle"; a
\* call under way has pc "request" or "delay", a call that has ended "done").
NoBulkDelete == [pc |-> "idle", filesToDelete |-> <<>>, i |-> 0, deletedCount |-> 0,
                 log |-> <<>>]

\* No downloadAllFiles call is under way; `log` is what the last call did with
\* each file, in the order it did it.
NoBulkDownload == [pc |-> "idle", filesToDownload |-> <<>>, i |-> 0,
                   directoryHandle |-> FALSE, log |-> <<>>]

\* The bulk operations at rest: useState(false) three times, no call under way.
BulkIdle ==
    /\ isDownloadingAll = FALSE /\ isDeletingAll = FALSE
    /\ showDeleteAllConfirm = FALSE
    /\ bulkDelete = NoBulkDelete
    /\ bulkDownload = NoBulkDownload

\* No timer is pending and no notice visible.
ClockIdle == timerDue = <<>> /\ noticeAge = 0

\* The viewer before it is mounted (and in the specifications that leave it alone).
ViewerIdle ==
    /\ BulkIdle /\ ClockIdle
    /\ files = <<>> /\ loading = TRUE /\ error = Null
    /\ selectedFile = NullFile /\ filter = "all" /\ fileToDelete = NullFile
    /\ showDeleteSuccess = FALSE /\ deletedCountInfo = 0 /\ textContent = EmptyMap
    /\ participants = <<>> /\ participantsLoading = FALSE /\ participantsError = Null
    /\ pcLoad = "idle" /\ textQueue = <<>> /\ textContentMap = EmptyMap
    /\ pcParticipants = "idle" /\ participantsFile = NullFile
    /\ deletes = <<>> /\ timers = 0 /\ lastAlert = Null
    /\ served = <<>> /\ listed = <<>>


ClassifyIdle ==
    /\ raw = NoFile
    /\ stage = "idle"
    /\ classified = NoFile
    /\ reclassified = NoType

ClassifyInit ==
    /\ FacadeIdle
    /\ ViewerIdle
    /\ raw \in RawFiles
    /\ stage = "raw"
    /\ classified = NoFile
    /\ reclassified = NoType

\* loadFiles' map callback applied to the record: it is classified as received
\* and its name and size are defaulted; a record without a name makes
\* getFileType throw.
Classify ==
    /\ stage = "raw"
    /\ stage' = IF mapFile(raw).threw THEN "threw" ELSE "classified"
    /\ classified' = IF mapFile(raw).threw THEN NoFile ELSE mapFile(raw).file
    /\ UNCHANGED <<raw, reclassified>>
    /\ UNCHANGED <<facadeVars, viewerVars>>

\* getFileType applied again, to the record the viewer keeps.
Reclassify ==
    /\ stage = "classified"
    /\ stage' = "reclassified"
    /\ reclassified' = getFileType(classified).type
    /\ UNCHANGED <<raw, classified>>
    /\ UNCHANGED <<facadeVars, viewerVars>>

ClassifyNext == Classify \/ Reclassify

SpecClassify == ClassifyInit /\ [][ClassifyNext]_vars

-----------------------------------------------------------------------------
(* The viewer: derived values *)

\* filteredFiles, for a value of the filter.
filteredFilesFor(f) ==
    IF f = "participants" THEN <<>>
    ELSE SelectSeq(files, LAMBDA file : f = "all" \/ file.fileType = f)

filteredFiles == filteredFilesFor(filter)

countOfType(t) == Len(SelectSeq(files, LAMBDA file : file.fileType = t))

fileCounts ==
    [all |-> Len(files), image |-> countOfType("image"), video |-> countOfType("video"),
     audio |-> countOfType("audio"), text |-> countOfType("text")]

\* The component renders the page (not the spinner, not the error box).
PageShown == ~loading /\ error = Null

\* The page's own buttons can be clicked: no modal overlay covers them.
PageClickable ==
    /\ PageShown /\ selectedFile = NullFile /\ fileToDelete = NullFile
    /\ ~showDeleteAllConfirm

KeysOf(fs) == {fs[i].key : i \in 1..Len(fs)}

-----------------------------------------------------------------------------
(* The viewer: loadFiles *)

\* The responses fetch('/api/uploadthing') can bring: a network failure, a
\* non-OK status, a body with success=false (with or without an error text),
\* or the list.
ListFetchOutcomes ==
    {[kind |-> "throw", message |-> "Failed to fetch"],
     [kind |-> "response", ok |-> FALSE, status |-> "500"],
     [kind |-> "response", ok |-> TRUE, success |-> FALSE,
      error |-> "Dosyalar yuklenirken hata olustu"],
     [kind |-> "response", ok |-> TRUE, success |-> FALSE, error |-> Null],
     [kind |-> "response", ok |-> TRUE, success |-> TRUE, files |-> served]}

\* Mutant of supportedFiles: the `.filter(file => file.fileType !== null)` is
\* missing.
supportedFiles_NoFilter(dataFiles) ==
    [threw |-> \E i \in 1..Len(dataFiles) : mapFile(dataFiles[i]).threw,
     files |-> [i \in 1..Len(dataFiles) |-> mapFile(dataFiles[i]).file]]

\* data.files.map(...).filter(file => file.fileType !== null); the map throws
\* when getFileType throws for a record.
supportedFiles(dataFiles) ==
    [threw |-> \E i \in 1..Len(dataFiles) : mapFile(dataFiles[i]).threw,
     files |-> SelectSeq([i \in 1..Len(dataFiles) |-> mapFile(dataFiles[i]).file],
                         LAMBDA file : file.fileType # NoType)]

\* supportedFiles.filter(file => file.fileType === 'text')
textFilesOf(fs) == SelectSeq(fs, LAMBDA file : file.fileType = "text")

\* Mutant of loadFilesResult: a non-OK status is not thrown.
loadFilesResult_IgnoresStatus(o) ==
    IF o.kind = "throw" THEN [message |-> o.message, files |-> <<>>]
    ELSE IF ~o.ok THEN [message |-> Null, files |-> <<>>]
    ELSE IF ~o.success
    THEN [message |-> IF Truthy(o.error) THEN o.error ELSE "Dosyalar yuklenemedi",
          files |-> <<>>]
    ELSE IF supportedFiles(o.files).threw
    THEN [message |-> "Cannot read properties of undefined (reading 'split')",
          files |-> <<>>]
    ELSE [message |-> Null, files |-> supportedFiles(o.files).files]

\* What loadFiles' try block ends with for a list response: the message of the
\* error it throws (Null when none), and the files it publishes.
loadFilesResult(o) ==
    IF o.kind = "throw" THEN [message |-> o.message, files |-> <<>>]
    ELSE IF ~o.ok THEN [message |-> "HTTP error! status: " \o o.status, files |-> <<>>]
    ELSE IF ~o.success
    THEN [message |-> IF Truthy(o.error) THEN o.error ELSE "Dosyalar yuklenemedi",
          files |-> <<>>]
    ELSE IF supportedFiles(o.files).threw
    THEN [message |-> "Cannot read properties of undefined (reading 'split')",
          files |-> <<>>]
    ELSE [message |-> Null, files |-> supportedFiles(o.files).files]

\* What fetch(url) can bring for a text file: its content, the body of an
\* unsuccessful response, or a network failure.
TextFetchOutcomes ==
    {[kind |-> "response", ok |-> TRUE, text |-> "hello"],
     [kind |-> "response", ok |-> FALSE, text |-> "404 Not Found"],
     [kind |-> "throw"]}

\* 'Dosya icerigi yuklenemedi.', what fetchTextContent returns from its catch.
contentUnavailable == "Dosya icerigi yuklenemedi."

\* fetchTextContent(url): the body of the response, whatever its status, or
\* the placeholder when fetch (or response.text()) throws.
fetchTextContent(o) == IF o.kind = "throw" THEN contentUnavailable ELSE o.text

\* The component as it is mounted: useState's initial values, and loadFiles
\* awaiting the list.
Mounted ==
    /\ FacadeIdle
    /\ ClassifyIdle
    /\ listed = <<>>
    /\ files = <<>> /\ loading = TRUE /\ error = Null
    /\ selectedFile = NullFile /\ filter = "all" /\ fileToDelete = NullFile
    /\ showDeleteSuccess = FALSE /\ deletedCountInfo = 0 /\ textContent = EmptyMap
    /\ participants = <<>> /\ participantsLoading = FALSE /\ participantsError = Null
    /\ pcLoad = "fetch" /\ textQueue = <<>> /\ textContentMap = EmptyMap
    /\ pcParticipants = "idle" /\ participantsFile = NullFile
    /\ deletes = <<>> /\ timers = 0 /\ lastAlert = Null
    /\ BulkIdle /\ ClockIdle

ViewerInit == served \in ServedLists /\ Mounted

\* The end of loadFiles: `finally { setLoading(false) }`, then loadParticipants()
\* up to its first await (setParticipantsLoading(true), the list is requested).
LoadFilesEnds ==
    /\ loading' = FALSE
    /\ pcLoad' = "done"
    /\ participantsLoading' = TRUE
    /\ pcParticipants' = "list"

\* The list response arrives.  A failure sets error; a list is classified and
\* published, and the content of its text files is then fetched one by one.
LoadFilesResponse ==
    /\ pcLoad = "fetch"
    /\ \E o \in ListFetchOutcomes :
        LET r == loadFilesResult(o) IN
        /\ listed' = IF o.kind = "response" /\ o.ok /\ o.success THEN o.files ELSE <<>>
        /\ IF r.message # Null
           THEN /\ error' = r.message
                /\ LoadFilesEnds
                /\ UNCHANGED <<files, textQueue, textContentMap, textContent>>
           ELSE /\ files' = r.files
                /\ textContentMap' = EmptyMap
                /\ textQueue' = textFilesOf(r.files)
                /\ error' = error
                /\ IF textFilesOf(r.files) = <<>>
                   THEN /\ textContent' = EmptyMap
                        /\ LoadFilesEnds
                   ELSE /\ pcLoad' = "texts"
                        /\ UNCHANGED <<textContent, loading, participantsLoading,
                                       pcParticipants>>
    /\ UNCHANGED <<selectedFile, filter, fileToDelete, showDeleteSuccess,
                   deletedCountInfo, participants, participantsError,
                   participantsFile, deletes, timers, lastAlert, served>>
    /\ UNCHANGED <<facadeVars, classifyVars, bulkVars, clockVars>>

\* Mutant of TextContentFetched: the map is published and loadFiles ends after
\* the first text file.
TextContentFetched_EndsEarly ==
    /\ pcLoad = "texts"
    /\ \E o \in TextFetchOutcomes :
        LET map == (Head(textQueue).key :> fetchTextContent(o)) @@ textContentMap IN
        /\ textQueue' = <<>>
        /\ textContentMap' = map
        /\ textContent' = map
        /\ LoadFilesEnds
    /\ UNCHANGED <<files, error, selectedFile, filter, fileToDelete, showDeleteSuccess,
                   deletedCountInfo, participants, participantsError,
                   participantsFile, deletes, timers, lastAlert, served, listed>>
    /\ UNCHANGED <<facadeVars, classifyVars, bulkVars, clockVars>>

\* fetchTextContent returns for the next text file; after the last one the map
\* is published and loadFiles ends.
TextContentFetched ==
    /\ pcLoad = "texts"
    /\ \E o \in TextFetchOutcomes :
        LET map == (Head(textQueue).key :> fetchTextContent(o)) @@ textContentMap IN
        /\ textQueue' = Tail(textQueue)
        /\ textContentMap' = map
        /\ IF Tail(textQueue) = <<>>
           THEN /\ textContent' = map
                /\ LoadFilesEnds
           ELSE UNCHANGED <<textContent, loading, pcLoad, participantsLoading,
                            pcParticipants>>
    /\ UNCHANGED <<files, error, selectedFile, filter, fileToDelete, showDeleteSuccess,
                   deletedCountInfo, participants, participantsError,
                   participantsFile, deletes, timers, lastAlert, served, listed>>
    /\ UNCHANGED <<facadeVars, classifyVars, bulkVars, clockVars>>

-----------------------------------------------------------------------------
(* The viewer: loadParticipants *)

participantMarkers == {<<"k", "a", "t", "i", "l", "i", "m", "c", "i">>, <<"p", "a", "r", "t", "i", "c", "i", "p", "a", "n", "t">>}
jsonSuffix == <<".", "j", "s", "o", "n">>

\* t.includes(part)
includes(t, part) ==
    \E i \in 1..(Len(t) - Len(part) + 1) : SubSeq(t, i, i + Len(part) - 1) = part

\* (file.name || file.fileName || '').toLowerCase()
lowerNameOf(file) ==
    IF TruthyText(file.name) THEN toLowerCase(file.name)
    ELSE IF TruthyText(file.fileName) THEN toLowerCase(file.fileName)
    ELSE <<>>

\* Mutant of isParticipantsFile: the predicate does not test the '.json' ending.
isParticipantsFile_NoJsonSuffix(file) ==
    \E m \in participantMarkers : includes(lowerNameOf(file), m)

\* The predicate of data.files.find: the name contains 'katilimci' or
\* 'participant', or ends in '.json'.  (The source also tests the spelling
\* with dotless i, which no ASCII name contains.)
isParticipantsFile(file) ==
    \/ \E m \in participantMarkers : includes(lowerNameOf(file), m)
    \/ endsWith(lowerNameOf(file), jsonSuffix)

\* data.files.find(...): the first match, NullFile when there is none.
findParticipantsFile(dataFiles) ==
    LET hits == {i \in 1..Len(dataFiles) : isParticipantsFile(dataFiles[i])} IN
    IF hits = {} THEN NullFile
    ELSE dataFiles[CHOOSE i \in hits : \A j \in hits : i <= j]

\* data.files.filter(file => name.endsWith('.json')), of the fallback branch.
jsonFilesOf(dataFiles) ==
    SelectSeq(dataFiles, LAMBDA file : endsWith(lowerNameOf(file), jsonSuffix))

\* What fetching and parsing the participants file can give: fetch throws, the
\* text is no JSON, the JSON has a `participants` array, or it has none.
JsonFetchOutcomes ==
    {[kind |-> "throw"],
     [kind |-> "text", parses |-> FALSE],
     [kind |-> "text", parses |-> TRUE, hasParticipants |-> TRUE,
      participants |-> <<"Ali", "Veli">>],
     [kind |-> "text", parses |-> TRUE, hasParticipants |-> TRUE,
      participants |-> <<>>],
     [kind |-> "text", parses |-> TRUE, hasParticipants |-> FALSE]}

\* The list response of loadParticipants arrives.
ParticipantsListResponse ==
    /\ pcParticipants = "list"
    /\ \E o \in ListFetchOutcomes :
        IF o.kind = "throw" \/ ~o.ok
        THEN \* the outer catch, then finally
             /\ participantsError' = IF o.kind = "throw" THEN o.message
                                     ELSE "HTTP error! status: " \o o.status
             /\ participantsLoading' = FALSE
             /\ pcParticipants' = "done"
             /\ UNCHANGED participantsFile
        ELSE IF ~o.success
        THEN \* nothing but finally
             /\ participantsLoading' = FALSE
             /\ pcParticipants' = "done"
             /\ UNCHANGED <<participantsError, participantsFile>>
        ELSE IF findParticipantsFile(o.files) # NullFile
        THEN \* its content is requested
             /\ participantsFile' = findParticipantsFile(o.files)
             /\ pcParticipants' = "json"
             /\ UNCHANGED <<participantsError, participantsLoading>>
        ELSE IF jsonFilesOf(o.files) # <<>>
        THEN \* the fallback: the first .json file is requested
             /\ participantsFile' = jsonFilesOf(o.files)[1]
             /\ pcParticipants' = "jsonFallback"
             /\ UNCHANGED <<participantsError, participantsLoading>>
        ELSE /\ participantsError' = "Hic JSON dosyasi bulunamadi"
             /\ participantsLoading' = FALSE
             /\ pcParticipants' = "done"
             /\ UNCHANGED participantsFile
    /\ UNCHANGED <<files, loading, error, selectedFile, filter, fileToDelete,
                   showDeleteSuccess, deletedCountInfo, textContent, participants,
                   pcLoad, textQueue, textContentMap, deletes, timers, lastAlert,
                   served, listed>>
    /\ UNCHANGED <<facadeVars, classifyVars, bulkVars, clockVars>>

\* Mutant of ParticipantsJsonFetchedWith: the names are stored newest first.
ParticipantsJsonFetchedWith_Reversed(outcomes) ==
    /\ pcParticipants \in {"json", "jsonFallback"}
    /\ \E o \in outcomes :
        IF o.kind = "throw" \/ ~o.parses
        THEN /\ participantsError' = "JSON dosyasi okunamadi"
             /\ UNCHANGED participants
        ELSE IF o.hasParticipants
        THEN /\ participants' = Reverse(o.participants)
             /\ participantsError' = Null
        ELSE IF pcParticipants = "json"
        THEN \* participantsData.participants || []
             /\ participants' = <<>>
             /\ participantsError' = Null
        ELSE /\ participantsError' = "JSON dosyasinda katilimci verisi bulunamadi"
             /\ UNCHANGED participants
    /\ participantsLoading' = FALSE
    /\ pcParticipants' = "done"
    /\ UNCHANGED <<files, loading, error, selectedFile, filter, fileToDelete,
                   showDeleteSuccess, deletedCountInfo, textContent,
                   pcLoad, textQueue, textContentMap, participantsFile, deletes,
                   timers, lastAlert, served, listed>>
    /\ UNCHANGED <<facadeVars, classifyVars, bulkVars, clockVars>>

\* Mutant of ParticipantsJsonFetchedWith: a file that cannot be read sets the
\* main error.
ParticipantsJsonFetchedWith_SetsMainError(outcomes) ==
    /\ pcParticipants \in {"json", "jsonFallback"}
    /\ \E o \in outcomes :
        IF o.kind = "throw" \/ ~o.parses
        THEN /\ error' = "JSON dosyasi okunamadi"
             /\ UNCHANGED <<participants, participantsError>>
        ELSE IF o.hasParticipants
        THEN /\ participants' = o.participants
             /\ participantsError' = Null
             /\ UNCHANGED error
        ELSE IF pcParticipants = "json"
        THEN /\ participants' = <<>>
             /\ participantsError' = Null
             /\ UNCHANGED error
        ELSE /\ participantsError' = "JSON dosyasinda katilimci verisi bulunamadi"
             /\ UNCHANGED <<participants, error>>
    /\ participantsLoading' = FALSE
    /\ pcParticipants' = "done"
    /\ UNCHANGED <<files, loading, selectedFile, filter, fileToDelete,
                   showDeleteSuccess, deletedCountInfo, textContent,
                   pcLoad, textQueue, textContentMap, participantsFile, deletes,
                   timers, lastAlert, served, listed>>
    /\ UNCHANGED <<facadeVars, classifyVars, bulkVars, clockVars>>

\* The content of the participants file arrives, as one of these outcomes, and
\* is parsed.
ParticipantsJsonFetchedWith(outcomes) ==
    /\ pcParticipants \in {"json", "jsonFallback"}
    /\ \E o \in outcomes :
        IF o.kind = "throw" \/ ~o.parses
        THEN /\ participantsError' = "JSON dosyasi okunamadi"
             /\ UNCHANGED participants
        ELSE IF o.hasParticipants
        THEN /\ participants' = o.participants
             /\ participantsError' = Null
        ELSE IF pcParticipants = "json"
        THEN \* participantsData.participants || []
             /\ participants' = <<>>
             /\ participantsError' = Null
        ELSE /\ participantsError' = "JSON dosyasinda katilimci verisi bulunamadi"
             /\ UNCHANGED participants
    /\ participantsLoading' = FALSE
    /\ pcParticipants' = "done"
    /\ UNCHANGED <<files, loading, error, selectedFile, filter, fileToDelete,
                   showDeleteSuccess, deletedCountInfo, textContent,
                   pcLoad, textQueue, textContentMap, participantsFile, deletes,
                   timers, lastAlert, served, listed>>
    /\ UNCHANGED <<facadeVars, classifyVars, bulkVars, clockVars>>

\* The same, the content being any a file can have.
ParticipantsJsonFetched == ParticipantsJsonFetchedWith(JsonFetchOutcomes)

-----------------------------------------------------------------------------
(* The viewer: the participants, each file with its content *)

\* The records of a list with several files the heuristic matches: "k" is a
\* JSON file of something else, "r" an image named after the participants,
\* "j" the participants file, "d" a text file.
ParticipantsUniverse ==
    <<RawFile("k", <<"n", "o", "t", "e", "s", ".", "j", "s", "o", "n">>, Absent, <<"u", "n", "k", "n", "o", "w", "n">>),
      RawFile("r", <<"P", "a", "r", "t", "i", "c", "i", "p", "a", "n", "t", "s", ".", "p", "n", "g">>, Absent, <<"u", "n", "k", "n", "o", "w", "n">>),
      RawFile("j", <<"p", "a", "r", "t", "i", "c", "i", "p", "a", "n", "t", "s", ".", "j", "s", "o", "n">>, Absent, <<"u", "n", "k", "n", "o", "w", "n">>),
      RawFile("d", <<"n", ".", "t", "x", "t">>, Absent, <<"u", "n", "k", "n", "o", "w", "n">>)>>

ParticipantsLists ==
    LET picks == {q \in DistinctSeqsOver(1..Len(ParticipantsUniverse), MaxListed) :
                    \A i, k \in 1..Len(q) : i < k => q[i] < q[k]}
        oldestFirst == {[i \in 1..Len(q) |-> ParticipantsUniverse[q[i]]] : q \in picks}
    IN oldestFirst \cup {Reverse(q) : q \in oldestFirst}

\* The text at a file's url, as JSON.parse takes it: the participants file
\* holds {"participants": ["Ali", "Veli"], ...}, "k" holds JSON without
\* `participants`, the other files hold no JSON.
contentOf(file) ==
    IF file.key = "j"
    THEN [kind |-> "text", parses |-> TRUE, hasParticipants |-> TRUE,
          participants |-> <<"Ali", "Veli">>]
    ELSE IF file.key = "k"
    THEN [kind |-> "text", parses |-> TRUE, hasParticipants |-> FALSE]
    ELSE [kind |-> "text", parses |-> FALSE]

\* What fetching a file's url can give: fetch throws, or the file's text.
FileFetchOutcomes(file) == {[kind |-> "throw"], contentOf(file)}

\* The content of the file loadParticipants chose arrives and is parsed.
ParticipantsFileFetched ==
    ParticipantsJsonFetchedWith(FileFetchOutcomes(participantsFile))

\* The participants view: rendered under the participants filter, the names
\* numbered index + 1, once loading has ended without an error.
participantsView ==
    IF filter = "participants" /\ ~participantsLoading /\ participantsError = Null
    THEN [i \in 1..Len(participants) |-> [number |-> i, name |-> participants[i]]]
    ELSE <<>>


-----------------------------------------------------------------------------
(* The viewer: the user's actions and the single delete *)

\* A filter button: onClick={() => setFilter(filterOption.key)}.
SetFilter ==
    /\ PageClickable
    /\ \E f \in Filters : filter' = f
    /\ UNCHANGED <<files, loading, error, selectedFile, fileToDelete, showDeleteSuccess,
                   deletedCountInfo, textContent, participants, participantsLoading,
                   participantsError, pcLoad, textQueue, textContentMap, pcParticipants,
                   participantsFile, deletes, timers, lastAlert, served, listed>>
    /\ UNCHANGED <<facadeVars, classifyVars, bulkVars, clockVars>>

\* A card's view button: onClick={() => setSelectedFile(file)}.
SelectFile ==
    /\ PageClickable
    /\ \E i \in 1..Len(filteredFiles) : selectedFile' = filteredFiles[i]
    /\ UNCHANGED <<files, loading, error, filter, fileToDelete, showDeleteSuccess,
                   deletedCountInfo, textContent, participants, participantsLoading,
                   participantsError, pcLoad, textQueue, textContentMap, pcParticipants,
                   participantsFile, deletes, timers, lastAlert, served, listed>>
    /\ UNCHANGED <<facadeVars, classifyVars, bulkVars, clockVars>>

\* The preview's close button: onClick={() => setSelectedFile(null)}.
ClosePreview ==
    /\ PageShown /\ selectedFile # NullFile /\ fileToDelete = NullFile
    /\ selectedFile' = NullFile
    /\ UNCHANGED <<files, loading, error, filter, fileToDelete, showDeleteSuccess,
                   deletedCountInfo, textContent, participants, participantsLoading,
                   participantsError, pcLoad, textQueue, textContentMap, pcParticipants,
                   participantsFile, deletes, timers, lastAlert, served, listed>>
    /\ UNCHANGED <<facadeVars, classifyVars, bulkVars, clockVars>>

\* The preview's delete button: setFileToDelete(selectedFile); setSelectedFile(null).
PreviewDelete ==
    /\ PageShown /\ selectedFile # NullFile /\ fileToDelete = NullFile
    /\ fileToDelete' = selectedFile
    /\ selectedFile' = NullFile
    /\ UNCHANGED <<files, loading, error, filter, showDeleteSuccess,
                   deletedCountInfo, textContent, participants, participantsLoading,
                   participantsError, pcLoad, textQueue, textContentMap, pcParticipants,
                   participantsFile, deletes, timers, lastAlert, served, listed>>
    /\ UNCHANGED <<facadeVars, classifyVars, bulkVars, clockVars>>

\* A card's delete button: onClick={() => setFileToDelete(file)}.
AskDelete ==
    /\ PageClickable
    /\ \E i \in 1..Len(filteredFiles) : fileToDelete' = filteredFiles[i]
    /\ UNCHANGED <<files, loading, error, selectedFile, filter, showDeleteSuccess,
                   deletedCountInfo, textContent, participants, participantsLoading,
                   participantsError, pcLoad, textQueue, textContentMap, pcParticipants,
                   participantsFile, deletes, timers, lastAlert, served, listed>>
    /\ UNCHANGED <<facadeVars, classifyVars, bulkVars, clockVars>>

\* The dialog's cancel button: onClick={() => setFileToDelete(null)}.
CancelDelete ==
    /\ PageShown /\ fileToDelete # NullFile
    /\ fileToDelete' = NullFile
    /\ UNCHANGED <<files, loading, error, selectedFile, filter, showDeleteSuccess,
                   deletedCountInfo, textContent, participants, participantsLoading,
                   participantsError, pcLoad, textQueue, textContentMap, pcParticipants,
                   participantsFile, deletes, timers, lastAlert, served, listed>>
    /\ UNCHANGED <<facadeVars, classifyVars, bulkVars, clockVars>>

\* Mutant of ConfirmDeleteUpTo: the button is disabled while a request for the
\* dialog's file is in flight.
ConfirmDeleteUpTo_Busy(n) ==
    /\ PageShown /\ fileToDelete # NullFile
    /\ Len(deletes) < n
    /\ \A i \in 1..Len(deletes) : deletes[i].file.key # fileToDelete.key
    /\ deletes' = Append(deletes, [file |-> fileToDelete, selectedFile |-> selectedFile])
    /\ UNCHANGED <<files, loading, error, selectedFile, filter, fileToDelete,
                   showDeleteSuccess, deletedCountInfo, textContent, participants,
                   participantsLoading, participantsError, pcLoad, textQueue,
                   textContentMap, pcParticipants, participantsFile, timers,
                   lastAlert, served, listed>>
    /\ UNCHANGED <<facadeVars, classifyVars, bulkVars, clockVars>>

\* The dialog's delete button: handleDeleteFile(fileToDelete) up to its await of
\* deleteFile(file.key).  The call keeps the selectedFile of the render it was
\* made in.  At most n calls are in flight at once.
ConfirmDeleteUpTo(n) ==
    /\ PageShown /\ fileToDelete # NullFile
    /\ Len(deletes) < n
    /\ deletes' = Append(deletes, [file |-> fileToDelete, selectedFile |-> selectedFile])
    /\ UNCHANGED <<files, loading, error, selectedFile, filter, fileToDelete,
                   showDeleteSuccess, deletedCountInfo, textContent, participants,
                   participantsLoading, participantsError, pcLoad, textQueue,
                   textContentMap, pcParticipants, participantsFile, timers,
                   lastAlert, served, listed>>
    /\ UNCHANGED <<facadeVars, classifyVars, bulkVars, clockVars>>

\* The same, one call in flight at a time.
ConfirmDelete == ConfirmDeleteUpTo(MaxPendingDeletes)

\* The same, where the button is clicked again before the answer.
ConfirmDeleteAgain == ConfirmDeleteUpTo(MaxConfirms)

\* What deleteFile(key) can return: the facade's success (true or false), or
\* false when the request or the parsing of its answer throws.
DeleteFileOutcomes ==
    {[kind |-> "response", success |-> TRUE],
     [kind |-> "response", success |-> FALSE],
     [kind |-> "throw", success |-> FALSE]}

\* prevFiles.filter(f => f.key !== key)
withoutKey(fs, key) == SelectSeq(fs, LAMBDA f : f.key # key)

\* Sequence s without its i-th element.
RemoveAt(s, i) == SubSeq(s, 1, i - 1) \o SubSeq(s, i + 1, Len(s))

\* Mutant of DeleteFileReturns: the file is removed from the list whatever
\* deleteFile returned.
DeleteFileReturns_RemovesOnFailure ==
    \E i \in 1..Len(deletes), o \in DeleteFileOutcomes :
        LET d == deletes[i] IN
        /\ deletes' = RemoveAt(deletes, i)
        /\ files' = withoutKey(files, d.file.key)
        /\ IF o.success
           THEN /\ fileToDelete' = NullFile
                /\ selectedFile' = IF d.selectedFile.key = d.file.key
                                   THEN NullFile ELSE selectedFile
                /\ deletedCountInfo' = 1
                /\ showDeleteSuccess' = TRUE
                /\ timers' = timers + 1
                /\ served' = withoutKey(served, d.file.key)
                /\ UNCHANGED lastAlert
           ELSE /\ lastAlert' = "Dosya silinirken bir hata olustu."
                /\ UNCHANGED <<fileToDelete, selectedFile, deletedCountInfo,
                               showDeleteSuccess, timers, served>>
        /\ UNCHANGED <<loading, error, filter, textContent, participants,
                       participantsLoading, participantsError, pcLoad, textQueue,
                       textContentMap, pcParticipants, participantsFile, listed>>
        /\ UNCHANGED <<facadeVars, classifyVars, bulkVars, clockVars>>

\* deleteFile returns to a handleDeleteFile call, which goes on to its end.
DeleteFileReturnsStep ==
    \E i \in 1..Len(deletes), o \in DeleteFileOutcomes :
        LET d == deletes[i] IN
        /\ deletes' = RemoveAt(deletes, i)
        /\ IF o.success
           THEN /\ files' = withoutKey(files, d.file.key)
                /\ fileToDelete' = NullFile
                /\ selectedFile' = IF d.selectedFile.key = d.file.key
                                   THEN NullFile ELSE selectedFile
                /\ deletedCountInfo' = 1
                /\ showDeleteSuccess' = TRUE
                /\ timers' = timers + 1
                /\ served' = withoutKey(served, d.file.key)
                /\ UNCHANGED lastAlert
           ELSE /\ lastAlert' = "Dosya silinirken bir hata olustu."
                /\ UNCHANGED <<files, fileToDelete, selectedFile, deletedCountInfo,
                               showDeleteSuccess, timers, served>>
        /\ UNCHANGED <<loading, error, filter, textContent, participants,
                       participantsLoading, participantsError, pcLoad, textQueue,
                       textContentMap, pcParticipants, participantsFile, listed>>
        /\ UNCHANGED <<facadeVars, classifyVars, bulkVars>>

\* The same where time is not measured.
DeleteFileReturns == DeleteFileReturnsStep /\ UNCHANGED clockVars

\* A timer set by a successful delete fires: setShowDeleteSuccess(false).
TimerFiresStep ==
    /\ timers > 0
    /\ timers' = timers - 1
    /\ showDeleteSuccess' = FALSE
    /\ UNCHANGED <<files, loading, error, selectedFile, filter, fileToDelete,
                   deletedCountInfo, textContent, participants, participantsLoading,
                   participantsError, pcLoad, textQueue, textContentMap, pcParticipants,
                   participantsFile, deletes, lastAlert, served, listed>>
    /\ UNCHANGED <<facadeVars, classifyVars, bulkVars>>

\* The same where time is not measured: the timer fires at any moment.
TimerFires == TimerFiresStep /\ UNCHANGED clockVars

-----------------------------------------------------------------------------
(* The viewer: the bulk delete *)

\* The variables the bulk delete leaves alone.
bulkDeleteFrame ==
    <<loading, error, selectedFile, filter, fileToDelete, textContent, participants,
      participantsLoading, participantsError, pcLoad, textQueue, textContentMap,
      pcParticipants, participantsFile, deletes, lastAlert, listed,
      isDownloadingAll, bulkDownload>>

\* The bulk delete button: onClick={() => setShowDeleteAllConfirm(true)},
\* rendered when filteredFiles.length > 0 and disabled while isDeletingAll.
\* No handleDeleteAllFiles call was made from the dialog it opens.
OpenDeleteAll ==
    /\ PageClickable /\ Len(filteredFiles) > 0 /\ ~isDeletingAll
    /\ showDeleteAllConfirm' = TRUE
    /\ bulkDelete' = NoBulkDelete
    /\ UNCHANGED <<files, showDeleteSuccess, deletedCountInfo, timers, served,
                   isDeletingAll>>
    /\ UNCHANGED bulkDeleteFrame
    /\ UNCHANGED <<facadeVars, classifyVars, clockVars>>

\* The bulk dialog's cancel button: onClick={() => setShowDeleteAllConfirm(false)},
\* disabled while isDeletingAll.
CancelDeleteAll ==
    /\ PageShown /\ showDeleteAllConfirm /\ ~isDeletingAll
    /\ showDeleteAllConfirm' = FALSE
    /\ UNCHANGED <<files, showDeleteSuccess, deletedCountInfo, timers, served,
                   isDeletingAll, bulkDelete>>
    /\ UNCHANGED bulkDeleteFrame
    /\ UNCHANGED <<facadeVars, classifyVars, clockVars>>

\* Mutant of ConfirmDeleteAll: the dialog's button calls
\* handleDeleteAllFiles(files), whatever the filter.
ConfirmDeleteAll_AllFiles ==
    /\ PageShown /\ showDeleteAllConfirm /\ ~isDeletingAll
    /\ IF Len(files) = 0
       THEN /\ bulkDelete' = [NoBulkDelete EXCEPT !.pc = "done"]
            /\ UNCHANGED isDeletingAll
       ELSE /\ isDeletingAll' = TRUE
            /\ bulkDelete' = [pc |-> "request", filesToDelete |-> files,
                              i |-> 1, deletedCount |-> 0, log |-> <<>>]
    /\ UNCHANGED <<files, showDeleteSuccess, deletedCountInfo, timers, served,
                   showDeleteAllConfirm>>
    /\ UNCHANGED bulkDeleteFrame
    /\ UNCHANGED <<facadeVars, classifyVars, clockVars>>

\* The bulk dialog's delete button, disabled while isDeletingAll:
\* handleDeleteAllFiles(filteredFiles) up to its first await.  With an empty
\* set it returns at once: the call has ended and changed nothing.
ConfirmDeleteAll ==
    /\ PageShown /\ showDeleteAllConfirm /\ ~isDeletingAll
    /\ IF Len(filteredFiles) = 0
       THEN /\ bulkDelete' = [NoBulkDelete EXCEPT !.pc = "done"]
            /\ UNCHANGED isDeletingAll
       ELSE /\ isDeletingAll' = TRUE
            /\ bulkDelete' = [pc |-> "request", filesToDelete |-> filteredFiles,
                              i |-> 1, deletedCount |-> 0, log |-> <<>>]
    /\ UNCHANGED <<files, showDeleteSuccess, deletedCountInfo, timers, served,
                   showDeleteAllConfirm>>
    /\ UNCHANGED bulkDeleteFrame
    /\ UNCHANGED <<facadeVars, classifyVars, clockVars>>

\* Mutant of BulkDeleteReturns: `deletedCount++` is outside `if (success)`.
BulkDeleteReturns_CountsEveryFile ==
    /\ bulkDelete.pc = "request"
    /\ \E o \in DeleteFileOutcomes :
        LET file == bulkDelete.filesToDelete[bulkDelete.i] IN
        /\ bulkDelete' = [bulkDelete EXCEPT
                             !.pc = "delay",
                             !.deletedCount = @ + 1,
                             !.log = Append(@, [key |-> file.key, success |-> o.success])]
        /\ files' = IF o.success THEN withoutKey(files, file.key) ELSE files
        /\ served' = IF o.success THEN withoutKey(served, file.key) ELSE served
    /\ UNCHANGED <<showDeleteSuccess, deletedCountInfo, timers, isDeletingAll,
                   showDeleteAllConfirm>>
    /\ UNCHANGED bulkDeleteFrame
    /\ UNCHANGED <<facadeVars, classifyVars, clockVars>>

\* Mutant of BulkDeleteReturns: the list is set from the set the call was
\* started with, `setFiles(filesToDelete.filter(f => f.key !== file.key))`.
BulkDeleteReturns_StaleList ==
    /\ bulkDelete.pc = "request"
    /\ \E o \in DeleteFileOutcomes :
        LET file == bulkDelete.filesToDelete[bulkDelete.i] IN
        /\ bulkDelete' = [bulkDelete EXCEPT
                             !.pc = "delay",
                             !.deletedCount = IF o.success THEN @ + 1 ELSE @,
                             !.log = Append(@, [key |-> file.key, success |-> o.success])]
        /\ files' = IF o.success THEN withoutKey(bulkDelete.filesToDelete, file.key)
                    ELSE files
        /\ served' = IF o.success THEN withoutKey(served, file.key) ELSE served
    /\ UNCHANGED <<showDeleteSuccess, deletedCountInfo, timers, isDeletingAll,
                   showDeleteAllConfirm>>
    /\ UNCHANGED bulkDeleteFrame
    /\ UNCHANGED <<facadeVars, classifyVars, clockVars>>

\* deleteFile returns to the loop of handleDeleteAllFiles: a success is counted
\* and the file removed; then the loop waits 100 ms.
BulkDeleteReturns ==
    /\ bulkDelete.pc = "request"
    /\ \E o \in DeleteFileOutcomes :
        LET file == bulkDelete.filesToDelete[bulkDelete.i] IN
        /\ bulkDelete' = [bulkDelete EXCEPT
                             !.pc = "delay",
                             !.deletedCount = IF o.success THEN @ + 1 ELSE @,
                             !.log = Append(@, [key |-> file.key, success |-> o.success])]
        /\ files' = IF o.success THEN withoutKey(files, file.key) ELSE files
        /\ served' = IF o.success THEN withoutKey(served, file.key) ELSE served
    /\ UNCHANGED <<showDeleteSuccess, deletedCountInfo, timers, isDeletingAll,
                   showDeleteAllConfirm>>
    /\ UNCHANGED bulkDeleteFrame
    /\ UNCHANGED <<facadeVars, classifyVars, clockVars>>

\* Mutant of BulkDeleteDelayEndsStep: a failed delete ends the loop.
BulkDeleteDelayEndsStep_AbortsOnFailure ==
    /\ bulkDelete.pc = "delay"
    /\ IF /\ bulkDelete.i < Len(bulkDelete.filesToDelete)
          /\ bulkDelete.log[Len(bulkDelete.log)].success
       THEN /\ bulkDelete' = [bulkDelete EXCEPT !.pc = "request", !.i = @ + 1]
            /\ UNCHANGED <<deletedCountInfo, showDeleteSuccess, timers,
                           showDeleteAllConfirm, isDeletingAll>>
       ELSE /\ timers < MaxTimers
            /\ bulkDelete' = [bulkDelete EXCEPT !.pc = "done"]
            /\ deletedCountInfo' = bulkDelete.deletedCount
            /\ showDeleteSuccess' = TRUE
            /\ timers' = timers + 1
            /\ showDeleteAllConfirm' = FALSE
            /\ isDeletingAll' = FALSE
    /\ UNCHANGED <<files, served>>
    /\ UNCHANGED bulkDeleteFrame
    /\ UNCHANGED <<facadeVars, classifyVars>>

\* The 100 ms wait ends: the loop goes on to the next file, or, after the last
\* one, handleDeleteAllFiles shows the notice, closes the dialog and ends
\* (`finally { setIsDeletingAll(false) }`).
BulkDeleteDelayEndsStep ==
    /\ bulkDelete.pc = "delay"
    /\ IF bulkDelete.i < Len(bulkDelete.filesToDelete)
       THEN /\ bulkDelete' = [bulkDelete EXCEPT !.pc = "request", !.i = @ + 1]
            /\ UNCHANGED <<deletedCountInfo, showDeleteSuccess, timers,
                           showDeleteAllConfirm, isDeletingAll>>
       ELSE /\ timers < MaxTimers
            /\ bulkDelete' = [bulkDelete EXCEPT !.pc = "done"]
            /\ deletedCountInfo' = bulkDelete.deletedCount
            /\ showDeleteSuccess' = TRUE
            /\ timers' = timers + 1
            /\ showDeleteAllConfirm' = FALSE
            /\ isDeletingAll' = FALSE
    /\ UNCHANGED <<files, served>>
    /\ UNCHANGED bulkDeleteFrame
    /\ UNCHANGED <<facadeVars, classifyVars>>

\* The same where time is not measured.
BulkDeleteDelayEnds == BulkDeleteDelayEndsStep /\ UNCHANGED clockVars

-----------------------------------------------------------------------------
(* The viewer: the bulk download *)

\* The variables the bulk download leaves alone.
bulkDownloadFrame ==
    <<files, loading, error, selectedFile, filter, fileToDelete, showDeleteSuccess,
      deletedCountInfo, textContent, participants, participantsLoading,
      participantsError, pcLoad, textQueue, textContentMap, pcParticipants,
      participantsFile, deletes, timers, served, listed,
      isDeletingAll, showDeleteAllConfirm, bulkDelete>>

\* alert(`${filesToDownload.length} dosya basariyla secilen klasore indirildi!`)
downloadedAlert(n) == ToString(n) \o " dosya basariyla secilen klasore indirildi!"

\* Mutant of StartDownloadAll: the button is not disabled while isDownloadingAll.
StartDownloadAll_NotDisabled ==
    /\ PageClickable /\ Len(filteredFiles) > 0
    /\ isDownloadingAll' = TRUE
    /\ \E showDirectoryPicker \in BOOLEAN :
          bulkDownload' = [pc |-> IF showDirectoryPicker THEN "picker" ELSE "file",
                           filesToDownload |-> filteredFiles, i |-> 1,
                           directoryHandle |-> FALSE, log |-> <<>>]
    /\ UNCHANGED lastAlert
    /\ UNCHANGED bulkDownloadFrame
    /\ UNCHANGED <<facadeVars, classifyVars, clockVars>>

\* The bulk download button: downloadAllFiles(filteredFiles) up to its first
\* await.  The button is rendered when filteredFiles.length > 0 and disabled
\* while isDownloadingAll.  Where the browser has window.showDirectoryPicker
\* the call awaits it, elsewhere it goes on to the first downloadFile.
StartDownloadAll ==
    /\ PageClickable /\ Len(filteredFiles) > 0 /\ ~isDownloadingAll
    /\ isDownloadingAll' = TRUE
    /\ \E showDirectoryPicker \in BOOLEAN :
          bulkDownload' = [pc |-> IF showDirectoryPicker THEN "picker" ELSE "file",
                           filesToDownload |-> filteredFiles, i |-> 1,
                           directoryHandle |-> FALSE, log |-> <<>>]
    /\ UNCHANGED lastAlert
    /\ UNCHANGED bulkDownloadFrame
    /\ UNCHANGED <<facadeVars, classifyVars, clockVars>>

\* showDirectoryPicker() returns a directory, or throws (the user cancelled)
\* and directoryHandle stays null.
DirectoryPickerReturns ==
    /\ bulkDownload.pc = "picker"
    /\ \E picked \in BOOLEAN :
          bulkDownload' = [bulkDownload EXCEPT !.pc = "file", !.directoryHandle = picked]
    /\ UNCHANGED <<isDownloadingAll, lastAlert>>
    /\ UNCHANGED bulkDownloadFrame
    /\ UNCHANGED <<facadeVars, classifyVars, clockVars>>

\* What downloadFile can do with a file: the blob is saved (written into the
\* directory, or offered as a browser download), or something throws (fetch,
\* getFileHandle, the write) and the catch opens the file's url instead.
DownloadFileOutcomes == {[saved |-> TRUE], [saved |-> FALSE]}

\* What downloadFile(file, directoryHandle) did, for the log.
downloaded(file, directoryHandle, o) ==
    [key |-> file.key,
     how |-> IF ~o.saved THEN "fallback"
             ELSE IF directoryHandle THEN "directory" ELSE "download"]

\* downloadAllFiles after its last downloadFile: the alert when a directory was
\* used, then `finally { setIsDownloadingAll(false) }`.
DownloadAllEnds(log) ==
    /\ bulkDownload' = [NoBulkDownload EXCEPT !.log = log]
    /\ lastAlert' = IF bulkDownload.directoryHandle
                    THEN downloadedAlert(Len(bulkDownload.filesToDownload))
                    ELSE lastAlert
    /\ isDownloadingAll' = FALSE

\* Mutant of DownloadFileReturnsWith: a file that cannot be saved ends the
\* loop (downloadFile has no catch, the catch of downloadAllFiles alerts).
DownloadFileReturnsWith_AbortsOnFailure(outcomes) ==
    /\ bulkDownload.pc = "file"
    /\ \E o \in outcomes :
        LET file == bulkDownload.filesToDownload[bulkDownload.i]
            log  == Append(bulkDownload.log,
                           downloaded(file, bulkDownload.directoryHandle, o))
        IN
        IF ~o.saved
        THEN /\ bulkDownload' = [NoBulkDownload EXCEPT !.log = log]
             /\ lastAlert' = "Indirme sirasinda bir hata olustu. Lutfen tekrar deneyin."
             /\ isDownloadingAll' = FALSE
        ELSE IF bulkDownload.i < Len(bulkDownload.filesToDownload)
        THEN /\ bulkDownload' =
                  IF bulkDownload.directoryHandle
                  THEN [bulkDownload EXCEPT !.i = @ + 1, !.log = log]
                  ELSE [bulkDownload EXCEPT !.pc = "wait", !.log = log]
             /\ UNCHANGED <<isDownloadingAll, lastAlert>>
        ELSE DownloadAllEnds(log)
    /\ UNCHANGED bulkDownloadFrame
    /\ UNCHANGED <<facadeVars, classifyVars, clockVars>>

\* Mutant of DownloadFileReturnsWith: the alert counts the files saved.
DownloadFileReturnsWith_CountsSaved(outcomes) ==
    /\ bulkDownload.pc = "file"
    /\ \E o \in outcomes :
        LET file == bulkDownload.filesToDownload[bulkDownload.i]
            log  == Append(bulkDownload.log,
                           downloaded(file, bulkDownload.directoryHandle, o))
        IN
        IF bulkDownload.i < Len(bulkDownload.filesToDownload)
        THEN /\ bulkDownload' =
                  IF bulkDownload.directoryHandle
                  THEN [bulkDownload EXCEPT !.i = @ + 1, !.log = log]
                  ELSE [bulkDownload EXCEPT !.pc = "wait", !.log = log]
             /\ UNCHANGED <<isDownloadingAll, lastAlert>>
        ELSE /\ bulkDownload' = [NoBulkDownload EXCEPT !.log = log]
             /\ lastAlert' =
                  IF bulkDownload.directoryHandle
                  THEN downloadedAlert(Len(SelectSeq(log, LAMBDA d : d.how = "directory")))
                  ELSE lastAlert
             /\ isDownloadingAll' = FALSE
    /\ UNCHANGED bulkDownloadFrame
    /\ UNCHANGED <<facadeVars, classifyVars, clockVars>>

\* downloadFile returns, with one of these outcomes (it catches its own errors,
\* and whichever way it saved the file it changes nothing of the component).
\* Without a directory the loop waits 500 ms before the next file.
DownloadFileReturnsWith(outcomes) ==
    /\ bulkDownload.pc = "file"
    /\ \E o \in outcomes :
        LET file == bulkDownload.filesToDownload[bulkDownload.i]
            log  == Append(bulkDownload.log,
                           downloaded(file, bulkDownload.directoryHandle, o))
        IN
        IF bulkDownload.i < Len(bulkDownload.filesToDownload)
        THEN /\ bulkDownload' =
                  IF bulkDownload.directoryHandle
                  THEN [bulkDownload EXCEPT !.i = @ + 1, !.log = log]
                  ELSE [bulkDownload EXCEPT !.pc = "wait", !.log = log]
             /\ UNCHANGED <<isDownloadingAll, lastAlert>>
        ELSE DownloadAllEnds(log)
    /\ UNCHANGED bulkDownloadFrame
    /\ UNCHANGED <<facadeVars, classifyVars, clockVars>>

\* The same, whatever downloadFile does with the file.
DownloadFileReturns == DownloadFileReturnsWith(DownloadFileOutcomes)

\* The same where every file is saved.  (What downloadFile does with a file
\* changes nothing of the component: neither the flags nor the loop see it.)
DownloadFileSaved == DownloadFileReturnsWith({[saved |-> TRUE]})

\* The 500 ms wait ends: the next downloadFile starts.
DownloadWaitEnds ==
    /\ bulkDownload.pc = "wait"
    /\ bulkDownload' = [bulkDownload EXCEPT !.pc = "file", !.i = @ + 1]
    /\ UNCHANGED <<isDownloadingAll, lastAlert>>
    /\ UNCHANGED bulkDownloadFrame
    /\ UNCHANGED <<facadeVars, classifyVars, clockVars>>

ViewerNext ==
    \/ LoadFilesResponse
    \/ TextContentFetched
    \/ ParticipantsListResponse
    \/ ParticipantsJsonFetched
    \/ SetFilter
    \/ SelectFile
    \/ ClosePreview
    \/ PreviewDelete
    \/ AskDelete
    \/ CancelDelete
    \/ ConfirmDelete
    \/ DeleteFileReturns
    \/ TimerFires

\* The viewer with its list, preview and single delete; the bulk buttons are
\* left alone.
Spec == ViewerInit /\ [][ViewerNext]_vars

-----------------------------------------------------------------------------
(* The viewer: the success notice in time *)

\* ---- bounds
\* The ticks of the clock that make the 4000 ms of the notice timer.
TicksPerNotice == 2

\* setShowDeleteSuccess(true); setTimeout(() => setShowDeleteSuccess(false), 4000):
\* a step that sets a timer shows the notice now, and its timer is due
\* TicksPerNotice ticks from now.
ClockFollows ==
    IF timers' = timers + 1
    THEN timerDue' = Append(timerDue, TicksPerNotice) /\ noticeAge' = 0
    ELSE UNCHANGED clockVars

\* deleteFile returns to a handleDeleteFile call, in time.
TimedDeleteFileReturns == DeleteFileReturnsStep /\ ClockFollows

\* handleDeleteAllFiles' wait ends, in time.
TimedBulkDeleteDelayEnds == BulkDeleteDelayEndsStep /\ ClockFollows

\* The oldest pending timer fires when it is due.
TimedTimerFires ==
    /\ timerDue # <<>> /\ Head(timerDue) = 0
    /\ TimerFiresStep
    /\ timerDue' = Tail(timerDue)
    /\ noticeAge' = 0

\* Time passes by one tick, unless a timer is due.
Tick ==
    /\ timerDue # <<>>
    /\ \A i \in 1..Len(timerDue) : timerDue[i] > 0
    /\ timerDue' = [i \in 1..Len(timerDue) |-> timerDue[i] - 1]
    /\ noticeAge' = IF showDeleteSuccess THEN noticeAge + 1 ELSE 0
    /\ UNCHANGED <<viewerState, pcLoad, textQueue, textContentMap, pcParticipants,
                   participantsFile, deletes, timers, lastAlert, served, listed>>
    /\ UNCHANGED <<facadeVars, classifyVars, bulkVars>>

\* The viewer with its list, single delete and bulk delete, in time.
NoticeNext ==
    \/ LoadFilesResponse
    \/ TextContentFetched
    \/ AskDelete
    \/ CancelDelete
    \/ ConfirmDelete
    \/ TimedDeleteFileReturns
    \/ OpenDeleteAll
    \/ CancelDeleteAll
    \/ ConfirmDeleteAll
    \/ BulkDeleteReturns
    \/ TimedBulkDeleteDelayEnds
    \/ TimedTimerFires
    \/ Tick

SpecNotice == ViewerInit /\ [][NoticeNext]_vars

ParticipantsNext ==
    \/ LoadFilesResponse
    \/ TextContentFetched
    \/ ParticipantsListResponse
    \/ ParticipantsFileFetched
    \/ SetFilter

\* The viewer loading a list and the participants, each file with its content.
ParticipantsInit == served \in ParticipantsLists /\ Mounted

SpecParticipants == ParticipantsInit /\ [][ParticipantsNext]_vars

\* The viewer with its list, filter, single delete and bulk delete; the
\* preview, the bulk download and the participants request are left alone.
DeleteNext ==
    \/ LoadFilesResponse
    \/ TextContentFetched
    \/ SetFilter
    \/ AskDelete
    \/ CancelDelete
    \/ ConfirmDelete
    \/ DeleteFileReturns
    \/ TimerFires
    \/ OpenDeleteAll
    \/ CancelDeleteAll
    \/ ConfirmDeleteAll
    \/ BulkDeleteReturns
    \/ BulkDeleteDelayEnds

SpecDelete == ViewerInit /\ [][DeleteNext]_vars

\* The same, where every delete request is answered and every timeout ends.
SpecDeleteFair ==
    /\ SpecDelete
    /\ WF_vars(BulkDeleteReturns)
    /\ WF_vars(BulkDeleteDelayEnds)
    /\ WF_vars(DeleteFileReturns)
    /\ WF_vars(TimerFires)

\* The viewer with its list, filter and the two bulk operations side by side;
\* the cards' buttons and the participants request are left alone.
BulkNext ==
    \/ LoadFilesResponse
    \/ TextContentFetched
    \/ SetFilter
    \/ TimerFires
    \/ OpenDeleteAll
    \/ CancelDeleteAll
    \/ ConfirmDeleteAll
    \/ BulkDeleteReturns
    \/ BulkDeleteDelayEnds
    \/ StartDownloadAll
    \/ DirectoryPickerReturns
    \/ DownloadFileSaved
    \/ DownloadWaitEnds

SpecBulk == ViewerInit /\ [][BulkNext]_vars

\* The records of a list with several text files: "d" and "m" are text files,
\* "a" is an image.
TextsUniverse ==
    <<RawFile("a", <<"p", ".", "j", "p", "g">>, Absent, <<"u", "n", "k", "n", "o", "w", "n">>),
      RawFile("d", <<"n", ".", "t", "x", "t">>, Absent, <<"u", "n", "k", "n", "o", "w", "n">>),
      RawFile("m", <<"r", ".", "m", "d">>, Absent, <<"u", "n", "k", "n", "o", "w", "n">>)>>

TextsLists ==
    LET picks == {q \in DistinctSeqsOver(1..Len(TextsUniverse), MaxListed) :
                    \A i, k \in 1..Len(q) : i < k => q[i] < q[k]}
        oldestFirst == {[i \in 1..Len(q) |-> TextsUniverse[q[i]]] : q \in picks}
    IN oldestFirst \cup {Reverse(q) : q \in oldestFirst}

\* The viewer loading a list with its text contents, then the filter and the
\* single delete.
TextsNext ==
    \/ LoadFilesResponse
    \/ TextContentFetched
    \/ SetFilter
    \/ AskDelete
    \/ CancelDelete
    \/ ConfirmDelete
    \/ DeleteFileReturns
    \/ TimerFires

TextsInit == served \in TextsLists /\ Mounted

SpecTexts == TextsInit /\ [][TextsNext]_vars

\* The viewer with its list and the single delete, the dialog's delete button
\* clicked as often as the user likes.
ConfirmNext ==
    \/ LoadFilesResponse
    \/ TextContentFetched
    \/ AskDelete
    \/ CancelDelete
    \/ ConfirmDeleteAgain
    \/ DeleteFileReturns
    \/ TimerFires

SpecConfirm == ViewerInit /\ [][ConfirmNext]_vars

\* The viewer with its list, filter and the bulk download, whatever becomes of
\* each file.
DownloadNext ==
    \/ LoadFilesResponse
    \/ TextContentFetched
    \/ SetFilter
    \/ StartDownloadAll
    \/ DirectoryPickerReturns
    \/ DownloadFileReturns
    \/ DownloadWaitEnds

SpecDownload == ViewerInit /\ [][DownloadNext]_vars

-----------------------------------------------------------------------------
(* The facade as a state machine: one action per handler *)

FacadeInit ==
    /\ ClassifyIdle
    /\ ViewerIdle
    /\ store \in DistinctSeqsOver(Keys, MaxFiles)
    /\ request = [method |-> "NONE", query |-> <<>>, body |-> ""]
    /\ response = Json(0, [success |-> FALSE])
    /\ calls = <<>>
    /\ uncaught = FALSE

GET ==
    \E o \in ListFilesOutcomes :
      \E clock \in ClockReadings(IF o.kind = "return" THEN Len(o.files) ELSE 0) :
        LET r == GETHandler(o, clock) IN
        /\ request' = [method |-> "GET", query |-> <<>>, body |-> ""]
        /\ calls' = <<[op |-> "listFiles", outcome |-> o]>>
        /\ response' = r.response
        /\ uncaught' = r.uncaught
        /\ store' = store
        /\ UNCHANGED <<classifyVars, viewerVars>>

DELETE ==
    \E query \in Queries, o \in DeleteFilesOutcomes :
        LET r == DELETEHandler(query, o)
            fileKey == SearchParamsGet(query, "key")
            called == DELETECallsProvider(query)
        IN
        /\ request' = [method |-> "DELETE", query |-> query, body |-> ""]
        /\ calls' = IF called
                    THEN <<[op |-> "deleteFiles", keys |-> <<fileKey>>, outcome |-> o]>>
                    ELSE <<>>
        /\ response' = r.response
        /\ uncaught' = r.uncaught
        /\ store' = IF called THEN StoreAfterDelete(store, fileKey, o) ELSE store
        /\ UNCHANGED <<classifyVars, viewerVars>>

PATCH ==
    \E query \in Queries, body \in Bodies :
        LET r == PATCHHandler(query, body) IN
        /\ request' = [method |-> "PATCH", query |-> query, body |-> body]
        /\ calls' = PATCHCalls(query, body)
        /\ response' = r.response
        /\ uncaught' = r.uncaught
        /\ store' = store
        /\ UNCHANGED <<classifyVars, viewerVars>>

FacadeNext == GET \/ DELETE \/ PATCH

SpecFacade == FacadeInit /\ [][FacadeNext]_vars

-----------------------------------------------------------------------------
(* Claims about classification, checked under SpecClassify *)

\* The type named by the prefix of a MIME type, NoType when it has none of the
\* four prefixes.
TypeOfMime(mimeType) ==
    IF mimeStartsWith(mimeType, imagePrefix) THEN "image"
    ELSE IF mimeStartsWith(mimeType, videoPrefix) THEN "video"
    ELSE IF mimeStartsWith(mimeType, audioPrefix) THEN "audio"
    ELSE IF mimeStartsWith(mimeType, textPrefix) THEN "text"
    ELSE NoType

\* Classification depends on nothing but the MIME type and the lowercased
\* extension: every listed record with the same two gets the type this one got.
ClassificationIsFunctionOfMimeAndExtension ==
    stage \in {"classified", "reclassified"}
    => \A r \in RawFiles :
         (/\ r.name # Absent
          /\ mimeTypeOf(r) = mimeTypeOf(raw)
          /\ extensionOf(r) = extensionOf(raw))
         => getFileType(r).type = classified.fileType

\* Classifying the record the viewer keeps (fileType and defaulted name
\* attached) gives the type of the first classification.
ClassificationIsIdempotent ==
    stage = "reclassified" => reclassified = classified.fileType

\* C8: classification is a function of the MIME type and the lowercased
\* filename extension, and classifying an already classified record yields
\* the type of the first classification.
C8_ClassificationPureAndIdempotent ==
    ClassificationIsFunctionOfMimeAndExtension /\ ClassificationIsIdempotent

\* C9: a record whose MIME type has one of the prefixes image/, video/, audio/,
\* text/ gets the type that prefix names, whatever its filename extension is.
C9_MimePrefixDecides ==
    (stage \in {"classified", "reclassified"} /\ TypeOfMime(mimeTypeOf(raw)) # NoType)
    => classified.fileType = TypeOfMime(mimeTypeOf(raw))

-----------------------------------------------------------------------------
(* Claims about the facade, checked under SpecFacade *)

\* The key of the request handled last, as the handlers read it.
RequestKey == SearchParamsGet(request.query, "key")

\* The outcome of the one provider call of the request handled last.
CallOutcome == calls[1].outcome

\* C1: whenever utapi.listFiles() returns nothing, or a response without a
\* `files` field, GET answers 200 with exactly {success: true, files: [],
\* total: 0}; it is not an error response.
C1_ListWithoutFilesIsEmptySuccess ==
    (/\ request.method = "GET"
     /\ CallOutcome.kind = "return"
     /\ (CallOutcome.isNull \/ ~CallOutcome.hasFiles))
    => /\ response.status = 200
       /\ response.body = [success |-> TRUE, files |-> <<>>, total |-> 0]
       /\ ~uncaught

\* C1's case: the provider holds files, its response carries no `files` field,
\* and GET answered with the empty success result.
C1_Witness ==
    /\ request.method = "GET"
    /\ store # <<>>
    /\ CallOutcome.kind = "return"
    /\ ~CallOutcome.isNull /\ ~CallOutcome.hasFiles
    /\ response.status = 200
    /\ response.body.total = 0

\* C2: a DELETE whose key is absent or empty is answered 400 with
\* success=false, and utapi.deleteFiles is not called.
C2_DeleteWithoutKeyIs400 ==
    (request.method = "DELETE" /\ (RequestKey = Null \/ RequestKey = ""))
    => /\ response.status = 400
       /\ response.body.success = FALSE
       /\ calls = <<>>
       /\ ~uncaught

\* C2's case: DELETE ?key= (the empty key) was refused with 400.
C2_Witness ==
    /\ request.method = "DELETE"
    /\ request.query = <<<<"key", "">>>>
    /\ response.status = 400
    /\ calls = <<>>

\* C3: a DELETE with a non-empty key calls utapi.deleteFiles exactly once, with
\* that key alone; when the provider reports success the answer is 200 with
\* success=true and deletedKey = the key, and when it reports failure the
\* answer is 400 with success=false.
C3_DeleteCallsProviderOnce ==
    (request.method = "DELETE" /\ RequestKey # Null /\ RequestKey # "")
    => /\ Len(calls) = 1
       /\ calls[1].op = "deleteFiles"
       /\ calls[1].keys = <<RequestKey>>
       /\ (CallOutcome.kind = "return" /\ CallOutcome.success)
            => /\ response.status = 200
               /\ response.body.success = TRUE
               /\ response.body.deletedKey = RequestKey
       /\ (CallOutcome.kind = "return" /\ ~CallOutcome.success)
            => /\ response.status = 400
               /\ response.body.success = FALSE

\* C3's case: a DELETE of key "b", which the provider reported as failed, was
\* answered 400 after one provider call.
C3_Witness ==
    /\ request.method = "DELETE"
    /\ RequestKey = "b"
    /\ Len(calls) = 1
    /\ CallOutcome.kind = "return" /\ ~CallOutcome.success
    /\ response.status = 400
    /\ "b" \in Range(store)

\* Whether handling the last request raised an error, and which: a throw of the
\* provider call (GET, DELETE) or of request.json() (PATCH).
RaisedError ==
    IF request.method = "PATCH"
    THEN (IF RequestJson(request.body).kind = "throw"
          THEN <<RequestJson(request.body).error>> ELSE <<>>)
    ELSE IF calls # <<>> /\ CallOutcome.kind = "throw"
    THEN <<CallOutcome.error>>
    ELSE <<>>

\* C4: no handler ends by throwing; an error raised while handling a request
\* (by the provider call or by parsing the body) yields 500 with
\* success=false, a message in `error` and, in `details`, the message of the
\* error (the fixed text 'Bilinmeyen hata' when the thrown value is no Error).
C4_ErrorsBecome500 ==
    /\ ~uncaught
    /\ RaisedError # <<>>
        => /\ response.status = 500
           /\ response.body.success = FALSE
           /\ response.body.error # ""
           /\ RaisedError[1].isError => response.body.details = RaisedError[1].message
           /\ ~RaisedError[1].isError => response.body.details = "Bilinmeyen hata"

\* C4's case: a PATCH with a key and an unparseable body was answered 500 with
\* the parser's message in details.
C4_Witness ==
    /\ request.method = "PATCH"
    /\ RequestKey = "a"
    /\ request.body = "not json"
    /\ response.status = 500
    /\ response.body.details = "Unexpected token in JSON"

\* C5 as stated: every PATCH request is answered with success and an echo of
\* its body, makes no provider call and leaves the provider's files alone.
C5_Original ==
    request.method = "PATCH"
    => /\ response.status = 200
       /\ response.body.success = TRUE
       /\ response.body.updatedData = JsonValues[request.body]
       /\ calls = <<>>

\* C5 amended: no PATCH request makes a provider call or changes the stored
\* files.  A PATCH whose body does not parse as JSON is answered 500 with
\* success=false, with or without a key (the body is parsed before the key is
\* tested); one whose body parses and whose key is absent or empty is
\* answered 400 with success=false; one whose body parses and whose key is
\* non-empty is answered 200 with success=true, updatedKey = the key and
\* updatedData = the parsed body.
C5_PatchIsStub ==
    /\ [](request.method = "PATCH"
          => /\ calls = <<>>
             /\ ~uncaught
             /\ request.body \notin DOMAIN JsonValues
                  => /\ response.status = 500
                     /\ response.body.success = FALSE
             /\ (~Truthy(RequestKey) /\ request.body \in DOMAIN JsonValues)
                  => /\ response.status = 400
                     /\ response.body.success = FALSE
             /\ (Truthy(RequestKey) /\ request.body \in DOMAIN JsonValues)
                  => /\ response.status = 200
                     /\ response.body.success = TRUE
                     /\ response.body.updatedKey = RequestKey
                     /\ response.body.updatedData = JsonValues[request.body])
    /\ [][request'.method = "PATCH" => store' = store]_vars

\* C5's case: a PATCH of key "a" with the body {"name":"x"} (in whitespace) was
\* answered 200 with the parsed body echoed, while the provider holds files.
C5_Witness ==
    /\ request.method = "PATCH"
    /\ RequestKey = "a"
    /\ request.body = " {\"name\":\"x\"} "
    /\ response.status = 200
    /\ response.body.updatedData.fields = {<<"name", "x">>}
    /\ calls = <<>>
    /\ store # <<>>

\* C6 as stated: a PATCH whose key is absent or empty is answered 400 with
\* success=false whatever its body is.
C6_PatchWithoutKeyIs400 ==
    (request.method = "PATCH" /\ ~Truthy(RequestKey))
    => /\ response.status = 400
       /\ response.body.success = FALSE

\* C7: when the provider returns a file list, GET answers with one record per
\* provider file in the provider's order, each with its file's key and name,
\* url = "https://utfs.io/f/" + key, type "unknown" and size 0, and total is
\* the number of records.
C7_ListIsReshapedInOrder ==
    (/\ request.method = "GET"
     /\ CallOutcome.kind = "return"
     /\ ~CallOutcome.isNull /\ CallOutcome.hasFiles)
    => /\ response.status = 200
       /\ response.body.success = TRUE
       /\ Len(response.body.files) = Len(CallOutcome.files)
       /\ response.body.total = Len(CallOutcome.files)
       /\ \A i \in 1..Len(CallOutcome.files) :
            /\ response.body.files[i].key = CallOutcome.files[i].key
            /\ response.body.files[i].name = CallOutcome.files[i].name
            /\ response.body.files[i].url
                 = "https://utfs.io/f/" \o CallOutcome.files[i].key
            /\ response.body.files[i].type = "unknown"
            /\ response.body.files[i].size = 0

\* C7's case: the provider listed two files, "b" before "a", and GET returned
\* two records in that order.
C7_Witness ==
    /\ request.method = "GET"
    /\ CallOutcome.kind = "return" /\ CallOutcome.hasFiles
    /\ Len(CallOutcome.files) = 2
    /\ CallOutcome.files[1].key = "b" /\ CallOutcome.files[2].key = "a"
    /\ response.body.total = 2
    /\ response.body.files[1].url = "https://utfs.io/f/b"
    /\ response.body.files[2].url = "https://utfs.io/f/a"

-----------------------------------------------------------------------------
(* The viewer: claims *)

\* getFileType of each record the list can hold.
classificationOf == [r \in Range(ServedUniverse) |-> getFileType(r)]

\* The positions of the listed records that match no supported type.
UnsupportedListed ==
    {i \in 1..Len(listed) :
        ~classificationOf[listed[i]].threw /\ classificationOf[listed[i]].type = NoType}

\* The number of records of `files`, other than the one with this key, that a
\* filter value selects.
CountWithout(key, f) ==
    Cardinality({i \in 1..Len(files) :
                    files[i].key # key /\ (f = "all" \/ files[i].fileType = f)})

\* C10: a listed record that matches no supported type is never in the
\* in-memory list: in every reachable state it is in no filter view, "all"
\* included, and every filter count is the count of the other records.
C10_UnsupportedNeverListed ==
    \A i \in UnsupportedListed :
        /\ listed[i].key \notin KeysOf(files)
        /\ \A f \in Filters : listed[i].key \notin KeysOf(filteredFilesFor(f))
        /\ \A f \in DOMAIN fileCounts :
              fileCounts[f] = CountWithout(listed[i].key, f)

\* C10 witness: a list with an unsupported record beside a supported one has
\* been loaded, and the page shows the supported one only.
C10_Witness ==
    /\ pcLoad = "done" /\ error = Null
    /\ UnsupportedListed # {}
    /\ files # <<>>
    /\ Len(filteredFilesFor("all")) < Len(listed)
    /\ fileCounts.all = Len(files)

-----------------------------------------------------------------------------
(* The bulk delete: claims *)

\* The keys of the files the bulk delete under way (or the last one) has
\* attempted with this result.
BulkKeys(success) ==
    {bulkDelete.log[i].key : i \in {n \in 1..Len(bulkDelete.log) :
                                      bulkDelete.log[n].success = success}}

\* The step on which handleDeleteAllFiles ends.
BulkDeleteCompletes == bulkDelete.pc = "delay" /\ bulkDelete'.pc = "done"

\* C11 as stated: a bulk delete of N files of which M fail ends with the count
\* N-M, and the in-memory list that remains holds exactly the M failed files.
C11_Original ==
    [][BulkDeleteCompletes =>
         /\ deletedCountInfo' = Len(bulkDelete.filesToDelete)
                                   - Cardinality(BulkKeys(FALSE))
         /\ KeysOf(files') = BulkKeys(FALSE)]_vars

\* C11, amended: a bulk delete of N files of which M fail ends with the count
\* N-M; each attempt removes its file from the in-memory list when it succeeds
\* and leaves the list alone when it fails, so that at the end none of the N-M
\* deleted files is in the list and the files of the set still in it are among
\* the M that failed.  No other step of the bulk delete changes the list: the
\* bulk delete removes no file outside its set.
C11_BulkDeleteCountsAndRemoves ==
    /\ [][BulkDeleteCompletes =>
            /\ deletedCountInfo' = Len(bulkDelete.filesToDelete)
                                      - Cardinality(BulkKeys(FALSE))
            /\ showDeleteSuccess'
            /\ KeysOf(files') \cap BulkKeys(TRUE) = {}
            /\ KeysOf(files') \cap KeysOf(bulkDelete.filesToDelete)
                  \subseteq BulkKeys(FALSE)]_vars
    /\ [][bulkDelete' # bulkDelete =>
            IF bulkDelete.pc = "request" /\ bulkDelete'.pc = "delay"
            THEN LET e == bulkDelete'.log[Len(bulkDelete'.log)] IN
                 /\ e.key = bulkDelete.filesToDelete[bulkDelete.i].key
                 /\ files' = IF e.success THEN withoutKey(files, e.key) ELSE files
            ELSE files' = files]_vars

\* C11 witness: a bulk delete of two files has ended, one delete failed: the
\* notice counts 1, the failed file is in the list and the other is not.
C11_Witness ==
    /\ bulkDelete.pc = "done" /\ Len(bulkDelete.filesToDelete) = 2
    /\ Cardinality(BulkKeys(FALSE)) = 1 /\ Cardinality(BulkKeys(TRUE)) = 1
    /\ showDeleteSuccess /\ deletedCountInfo = 1
    /\ KeysOf(files) = BulkKeys(FALSE)

-----------------------------------------------------------------------------
(* The single delete: claims *)

\* The step on which the i-th handleDeleteFile call under way ends.
SingleDeleteEnds(i) == i \in 1..Len(deletes) /\ deletes' = RemoveAt(deletes, i)

\* The step on which it ends after a successful delete: only that sets a timer.
SingleDeleteSucceeds(i) == SingleDeleteEnds(i) /\ timers' = timers + 1

\* The step on which it ends after a failed delete.
SingleDeleteFails(i) == SingleDeleteEnds(i) /\ timers' = timers

\* C12: when a single delete of key k succeeds, the in-memory list no longer
\* holds k, the delete dialog is closed, an open preview of k is closed, and
\* the success notice is shown with the count 1.
C12_SingleDeleteSuccess ==
    [][\A i \in 1..Len(deletes) :
         SingleDeleteSucceeds(i) =>
            LET k == deletes[i].file.key IN
            /\ k \notin KeysOf(files')
            /\ fileToDelete' = NullFile
            /\ (selectedFile.key = k => selectedFile' = NullFile)
            /\ showDeleteSuccess' /\ deletedCountInfo' = 1]_vars

\* C14: when a single delete fails the user is alerted and the local state is
\* as before the attempt: the in-memory list, the preview, the delete dialog
\* and the success notice are unchanged.
C14_SingleDeleteFailure ==
    [][\A i \in 1..Len(deletes) :
         SingleDeleteFails(i) =>
            /\ lastAlert' = "Dosya silinirken bir hata olustu."
            /\ files' = files
            /\ selectedFile' = selectedFile
            /\ fileToDelete' = fileToDelete
            /\ showDeleteSuccess' = showDeleteSuccess
            /\ deletedCountInfo' = deletedCountInfo]_vars

\* C14 witness: a single delete has failed: the alert was raised, the file is
\* still listed and its dialog still open, no notice was shown.
C14_Witness ==
    /\ lastAlert = "Dosya silinirken bir hata olustu."
    /\ deletes = <<>>
    /\ fileToDelete # NullFile /\ fileToDelete.key \in KeysOf(files)
    /\ ~showDeleteSuccess /\ deletedCountInfo = 0 /\ timers = 0

-----------------------------------------------------------------------------
(* The success notice: claims *)

\* C13: every success notice shown after a successful delete, single or bulk,
\* stays visible for 4 seconds from the moment it was shown and then
\* disappears, also when several deletes succeed within 4 seconds of each
\* other: the notice is hidden only when the 4 seconds since it was shown last
\* have passed, and is never visible longer.
C13_NoticeStaysFourSeconds ==
    /\ [](showDeleteSuccess => noticeAge <= TicksPerNotice)
    /\ [][(showDeleteSuccess /\ ~showDeleteSuccess') =>
             noticeAge = TicksPerNotice]_vars

-----------------------------------------------------------------------------
(* The list request and the participants: claims *)

\* The requests of /api/uploadthing's list made so far: loadFiles makes one when
\* it starts, loadParticipants makes one when it starts.
listRequests ==
    (IF pcLoad = "idle" THEN 0 ELSE 1) + (IF pcParticipants = "idle" THEN 0 ELSE 1)

\* C15: while the viewer is mounted the list is requested exactly once, with
\* no retry after a failure; loadParticipants scans the files of that request
\* and does not list again.
C15_ListRequestedOnce ==
    /\ pcLoad # "idle" => listRequests = 1
    /\ pcParticipants # "idle" => pcParticipants \in {"json", "jsonFallback", "done"}

\* The participants file is among the listed files.
ParticipantsFileListed == \E i \in 1..Len(served) : served[i].key = "j"

\* loadParticipants has ended after fetching and parsing a file without error.
ParticipantsLoaded ==
    pcParticipants = "done" /\ participantsFile # NullFile /\ participantsError = Null

\* The names of an array as the participants view shows them: numbered from 1
\* in the array's order.
Numbered(names) == [i \in 1..Len(names) |-> [number |-> i, name |-> names[i]]]

\* C16 as stated: whenever the listed files include the participants JSON
\* file, whose content has an array of n names, the participants state after
\* loading is that array and the participants filter shows its n entries
\* numbered 1..n, whatever else the list holds.
C16_Original ==
    (ParticipantsLoaded /\ ParticipantsFileListed) =>
        /\ participants = contentOf([key |-> "j"]).participants
        /\ filter = "participants" =>
              participantsView = Numbered(contentOf([key |-> "j"]).participants)

\* C16, amended: whenever the first listed file the heuristic matches is a
\* JSON file whose content has a `participants` array of n names, and it was
\* fetched and parsed, the participants state is that array in its order and
\* the participants filter shows exactly its n entries numbered 1..n.
C16_FirstMatchDecides ==
    (ParticipantsLoaded /\ contentOf(participantsFile).parses
       /\ contentOf(participantsFile).hasParticipants) =>
        /\ participantsFile = findParticipantsFile(served)
        /\ participants = contentOf(participantsFile).participants
        /\ filter = "participants" =>
              participantsView = Numbered(contentOf(participantsFile).participants)

\* C16 witness: the participants file was listed after a text file; its two
\* names are loaded and the participants filter shows them numbered 1 and 2.
C16_Witness ==
    /\ ParticipantsLoaded /\ participantsFile.key = "j"
    /\ Len(served) = 2 /\ served[1].key = "d"
    /\ filter = "participants"
    /\ participantsView = <<[number |-> 1, name |-> "Ali"], [number |-> 2, name |-> "Veli"]>>

-----------------------------------------------------------------------------
(* The bulk operations: claims *)

\* C17: a bulk delete attempts every file of the set it was started with
\* exactly once, one at a time in the set's order: the attempts made are the
\* first files of the set in order, a request is in flight only when all
\* earlier ones have returned, and a failure does not end the sequence: at the
\* end every file was attempted and the count is that of the successes.
C17_BulkDeleteSequential ==
    bulkDelete.pc # "idle" =>
        /\ Len(bulkDelete.log) <= Len(bulkDelete.filesToDelete)
        /\ \A n \in 1..Len(bulkDelete.log) :
              bulkDelete.log[n].key = bulkDelete.filesToDelete[n].key
        /\ bulkDelete.pc = "request" => Len(bulkDelete.log) = bulkDelete.i - 1
        /\ bulkDelete.pc = "delay" => Len(bulkDelete.log) = bulkDelete.i
        /\ bulkDelete.pc = "done" => Len(bulkDelete.log) = Len(bulkDelete.filesToDelete)
        /\ bulkDelete.deletedCount =
              Cardinality({n \in 1..Len(bulkDelete.log) : bulkDelete.log[n].success})

\* C17 witness: a bulk delete of two files has ended; the first delete failed
\* and the second, attempted all the same, succeeded.
C17_Witness ==
    /\ bulkDelete.pc = "done" /\ Len(bulkDelete.filesToDelete) = 2
    /\ Len(bulkDelete.log) = 2
    /\ ~bulkDelete.log[1].success /\ bulkDelete.log[2].success
    /\ bulkDelete.deletedCount = 1 /\ ~isDeletingAll

\* The step on which a handleDeleteAllFiles call is made.
BulkDeleteStarts == bulkDelete.pc = "idle" /\ bulkDelete'.pc # "idle"

\* C18: a bulk delete starts only from the open confirmation dialog, and after
\* every bulk delete that was started the dialog is eventually closed without
\* a user action.
C18_DialogDismissed ==
    /\ [][BulkDeleteStarts => showDeleteAllConfirm]_vars
    /\ [][(isDeletingAll /\ showDeleteAllConfirm /\ ~showDeleteAllConfirm')
            => BulkDeleteCompletes]_vars
    /\ (bulkDelete.pc # "idle") ~> ~showDeleteAllConfirm

\* A handleDeleteAllFiles call is under way.
BulkDeleteRunning == bulkDelete.pc \in {"request", "delay"}

\* A downloadAllFiles call is under way.
BulkDownloadRunning == bulkDownload.pc \in {"picker", "file", "wait"}

\* C19: a bulk delete or bulk download that has started runs to completion.
\* Its busy flag is true exactly while it is under way; the flag falls only
\* on the step that follows the processing of the last file of the set; and
\* while the flag is true no second operation of the same kind starts: the
\* set under way stays the same and its position never goes back.
C19_BulkRunsToCompletion ==
    /\ [](isDeletingAll <=> BulkDeleteRunning)
    /\ [](isDownloadingAll <=> BulkDownloadRunning)
    /\ [][(isDeletingAll /\ ~isDeletingAll') =>
            /\ bulkDelete'.pc = "done"
            /\ Len(bulkDelete'.log) = Len(bulkDelete'.filesToDelete)]_vars
    /\ [][(isDownloadingAll /\ ~isDownloadingAll') =>
            /\ bulkDownload.pc = "file"
            /\ bulkDownload.i = Len(bulkDownload.filesToDownload)]_vars
    /\ [][(isDeletingAll /\ isDeletingAll') =>
            /\ bulkDelete'.filesToDelete = bulkDelete.filesToDelete
            /\ bulkDelete'.i >= bulkDelete.i]_vars
    /\ [][(isDownloadingAll /\ isDownloadingAll') =>
            /\ bulkDownload'.filesToDownload = bulkDownload.filesToDownload
            /\ bulkDownload'.i >= bulkDownload.i
            /\ bulkDownload.pc # "picker" => bulkDownload'.pc # "picker"]_vars

\* C19 witness: a bulk delete and a bulk download are under way at once, each
\* past its first file, both flags up, and the bulk dialog is still open.
C19_Witness ==
    /\ isDeletingAll /\ bulkDelete.pc = "request" /\ bulkDelete.i = 2
    /\ isDownloadingAll /\ bulkDownload.pc = "file" /\ bulkDownload.i = 2
    /\ showDeleteAllConfirm

-----------------------------------------------------------------------------
(* The list load: claims *)

\* loadFiles has ended without publishing a list: the provider holds files,
\* and either no list was received (a thrown request, a non-OK status or
\* success=false) or classifying the list received threw.
LoadFailed ==
    /\ pcLoad = "done"
    /\ \/ listed = <<>> /\ served # <<>>
       \/ \E i \in 1..Len(listed) : classificationOf[listed[i]].threw

\* C20: a failure of the list load sets the visible error, ends the loading
\* state, leaves the in-memory list empty and fetches no text content; and in
\* every reachable state a non-null error implies an empty in-memory list.
C20_LoadFailureBlocks ==
    /\ LoadFailed =>
          /\ error # Null /\ ~loading
          /\ files = <<>>
          /\ textContent = EmptyMap /\ textContentMap = EmptyMap /\ textQueue = <<>>
    /\ error # Null => files = <<>>

\* C20 witness: the list the provider holds was not received; the error is
\* shown, loading has ended and nothing is listed.
C20_Witness ==
    /\ LoadFailed /\ listed = <<>> /\ Len(served) = 2
    /\ error = "HTTP error! status: 500"
    /\ ~loading /\ files = <<>>

-----------------------------------------------------------------------------
(* Missing fields of a listed record: claims *)

\* The positions of the received records that carry no name.
NamelessListed == {i \in 1..Len(listed) : listed[i].name = Absent}

\* C21: once the list has been received, a received record without a name
\* does not set the error, and when it is kept it carries the defaulted name
\* (file.name || file.fileName || 'Isimsiz dosya').
C21_MissingNameTolerated ==
    pcLoad \in {"texts", "done"} =>
        \A i \in NamelessListed :
            /\ error = Null
            /\ \A k \in 1..Len(files) :
                  files[k].key = listed[i].key => files[k].name = nameOf(listed[i])

-----------------------------------------------------------------------------
(* The content of the text files: claims *)

\* The fetches of a text file that did not obtain its content.
FailedTextFetches == {o \in TextFetchOutcomes : o.kind = "throw" \/ ~o.ok}

\* The text files of the in-memory list whose content loadFiles has stored.
\* (The bodies of the outcomes differ, so the stored content tells the
\* outcome of the fetch.)
FetchFailedFor(key) ==
    /\ key \in DOMAIN textContentMap
    /\ \E o \in FailedTextFetches : textContentMap[key] = fetchTextContent(o)

\* C22: a text file whose content could not be obtained has the placeholder
\* stored under its key; the error is not set because of it; and the other
\* text files of the list are still fetched (each is stored or still queued).
C22_TextFailureIsPlaceholder ==
    \A key \in DOMAIN textContentMap :
        FetchFailedFor(key) =>
            /\ textContentMap[key] = contentUnavailable
            /\ error = Null
            /\ \A i \in 1..Len(files) :
                  files[i].fileType = "text" /\ pcLoad \in {"texts", "done"} /\ deletes = <<>>
                      => \/ files[i].key \in DOMAIN textContentMap
                         \/ files[i].key \in KeysOf(textQueue)

-----------------------------------------------------------------------------
(* The participants request: claims *)

\* A step in which the loadParticipants call ends.
ParticipantsAttemptEnds == pcParticipants # "done" /\ pcParticipants' = "done"

\* The content of a file is awaited that is no JSON: whether the fetch throws
\* or the text arrives, the attempt fails.
ParseFailureAhead ==
    /\ pcParticipants \in {"json", "jsonFallback"}
    /\ ~contentOf(participantsFile).parses

\* The messages a network or parse failure leaves in participantsError.
ParticipantsFailureMessages ==
    {"Failed to fetch", "HTTP error! status: 500", "JSON dosyasi okunamadi"}

\* C23: when loadParticipants ends, participantsLoading is false; a file that
\* is no JSON ends it with the cannot-be-read message; and an ending with a
\* network or parse failure message leaves the in-memory file list, the main
\* error, the filter and the text contents as they were.
C23_ParticipantsFailureIsLocal ==
    [][ParticipantsAttemptEnds =>
          /\ participantsLoading' = FALSE
          /\ ParseFailureAhead => participantsError' = "JSON dosyasi okunamadi"
          /\ (ParseFailureAhead \/ participantsError' \in ParticipantsFailureMessages) =>
                UNCHANGED <<files, error, filter, textContent>>]_vars

\* C23 witness: the list holds a text file and an image the name heuristic
\* takes for the participants file; parsing it failed, under the participants
\* filter, and the list, its text content and the main error are in place.
C23_Witness ==
    /\ pcParticipants = "done" /\ participantsFile.key = "r"
    /\ participantsError = "JSON dosyasi okunamadi" /\ ~participantsLoading
    /\ filter = "participants"
    /\ KeysOf(files) = {"d", "r"} /\ DOMAIN textContent = {"d"} /\ error = Null

-----------------------------------------------------------------------------
(* The bulk download: claims *)

\* The keys of the first n files of the set under way.
FirstKeys(n) == [k \in 1..n |-> bulkDownload.filesToDownload[k].key]

\* The keys of the files the log holds, in its order.
LogKeys(log) == [k \in 1..Len(log) |-> log[k].key]

\* C24: a bulk download processes every file of its set exactly once, one at
\* a time in the set's order: the files processed are the first files of the
\* set in order, the one under way is the next.  With a directory handle every
\* file is handed to the directory and the loop never waits: the next file
\* starts on the step the previous one returns.  Without one (no directory
\* API, or the picker was cancelled) every file is an individual browser
\* download and the next file starts only when the 500 ms wait ends.  A file
\* that fails does not end the loop: the call ends after the last file, all
\* files processed.
C24_BulkDownloadSequential ==
    /\ [](BulkDownloadRunning =>
            /\ LogKeys(bulkDownload.log) = FirstKeys(Len(bulkDownload.log))
            /\ bulkDownload.pc = "picker" =>
                  bulkDownload.log = <<>> /\ ~bulkDownload.directoryHandle
            /\ bulkDownload.pc = "file" => Len(bulkDownload.log) = bulkDownload.i - 1
            /\ bulkDownload.pc = "wait" =>
                  /\ Len(bulkDownload.log) = bulkDownload.i
                  /\ bulkDownload.i < Len(bulkDownload.filesToDownload)
                  /\ ~bulkDownload.directoryHandle
            /\ \A k \in 1..Len(bulkDownload.log) :
                  bulkDownload.log[k].how \in
                      IF bulkDownload.directoryHandle THEN {"directory", "fallback"}
                      ELSE {"download", "fallback"})
    /\ [][(BulkDownloadRunning /\ BulkDownloadRunning'
             /\ bulkDownload'.i # bulkDownload.i) =>
            /\ bulkDownload'.i = bulkDownload.i + 1
            /\ bulkDownload'.pc = "file"
            /\ bulkDownload.pc = IF bulkDownload.directoryHandle THEN "file" ELSE "wait"]_vars
    /\ [][(BulkDownloadRunning /\ ~BulkDownloadRunning') =>
            /\ bulkDownload.pc = "file"
            /\ LogKeys(bulkDownload'.log) = FirstKeys(Len(bulkDownload.filesToDownload))]_vars

\* C24 witness: a bulk download of two files without a directory has ended;
\* the first file failed and the second was downloaded all the same.
C24_Witness ==
    /\ bulkDownload.pc = "idle" /\ ~isDownloadingAll
    /\ bulkDownload.log = <<[key |-> "a", how |-> "fallback"],
                            [key |-> "d", how |-> "download"]>>

\* C29: when a bulk download that holds a directory handle ends, the alert
\* reports the number of files of the set as downloaded into the folder,
\* whatever became of each file: also when the write of some or all of them
\* failed and their url was opened instead.
C29_AlertCountsEveryFile ==
    [][(BulkDownloadRunning /\ ~BulkDownloadRunning' /\ bulkDownload.directoryHandle) =>
          /\ lastAlert' = downloadedAlert(Len(bulkDownload.filesToDownload))
          /\ Len(bulkDownload'.log) = Len(bulkDownload.filesToDownload)]_vars

\* C29 witness: a bulk download of two files into a directory has ended; the
\* write of the second file failed, and the alert reports 2 files downloaded
\* into the folder.
C29_Witness ==
    /\ bulkDownload.pc = "idle" /\ ~isDownloadingAll
    /\ bulkDownload.log = <<[key |-> "a", how |-> "directory"],
                            [key |-> "d", how |-> "fallback"]>>
    /\ lastAlert = "2 dosya basariyla secilen klasore indirildi!"

-----------------------------------------------------------------------------
(* Deletes side by side: claims *)

\* What loadFiles publishes for each list the provider can hold.
publishedOf == [l \in ServedLists |-> supportedFiles(l)]

\* The list loadFiles published.
loadedFiles == publishedOf[listed].files

\* The keys for which a delete request has returned success: the facade
\* answers success when the provider has deleted the file, so they are the
\* keys of the list received that the provider holds no longer.
DeletedKeys == KeysOf(listed) \ KeysOf(served)

\* C25: once the list is published the in-memory list is the published list
\* without exactly the keys for which a delete request has returned success,
\* in the published order, and its keys are unique; the list changes only by
\* losing one key, on the step the success for that key arrives.
C25_NoRemovalLost ==
    /\ []((pcLoad \in {"texts", "done"} /\ error = Null) =>
            /\ files = SelectSeq(loadedFiles, LAMBDA f : f.key \notin DeletedKeys)
            /\ \A i, k \in 1..Len(files) : files[i].key = files[k].key => i = k)
    /\ [][(pcLoad # "fetch" /\ files' # files) =>
            \E key \in KeysOf(files) :
                /\ files' = withoutKey(files, key)
                /\ key \in KeysOf(served) /\ key \notin KeysOf(served')]_vars

\* C25 witness: a single delete of the second file was confirmed, then a bulk
\* delete of both files; the bulk delete of the first file succeeded, then the
\* single delete, and the bulk delete's request for the second file is still
\* in flight: both files are gone from the list.
C25_Witness ==
    /\ Len(loadedFiles) = 2 /\ files = <<>> /\ DeletedKeys = KeysOf(listed)
    /\ bulkDelete.pc = "request" /\ bulkDelete.i = 2
    /\ bulkDelete.log = <<[key |-> bulkDelete.filesToDelete[1].key, success |-> TRUE]>>
    /\ deletes = <<>> /\ deletedCountInfo = 1 /\ showDeleteSuccess

-----------------------------------------------------------------------------
(* The single delete confirmed twice: claims *)

\* A delete request for the key is in flight.
DeleteInFlight(key) == \E i \in 1..Len(deletes) : deletes[i].file.key = key

\* The failure alert of handleDeleteFile.
deleteFailedAlert == "Dosya silinirken bir hata olustu."

\* C26: while a delete request for the dialog's file is in flight the dialog
\* is still open and its delete button can be clicked again; a click issues
\* one more request for the same key and leaves the dialog open; and every
\* answer is handled on its own: a success removes the key from the list and
\* shows the notice for 1 file, a failure raises the alert and leaves the list
\* as it is, whatever the other requests do.
C26_ConfirmTwice ==
    /\ []((PageShown /\ fileToDelete # NullFile /\ DeleteInFlight(fileToDelete.key)
             /\ Len(deletes) < MaxConfirms)
            => ENABLED ConfirmDeleteAgain)
    /\ [][Len(deletes') > Len(deletes) =>
            /\ deletes' = Append(deletes, [file |-> fileToDelete,
                                          selectedFile |-> selectedFile])
            /\ fileToDelete' = fileToDelete /\ fileToDelete # NullFile
            /\ UNCHANGED <<files, showDeleteSuccess, lastAlert>>]_vars
    /\ [][Len(deletes') < Len(deletes) =>
            \E i \in 1..Len(deletes) :
                /\ deletes' = RemoveAt(deletes, i)
                /\ \/ /\ files' = withoutKey(files, deletes[i].file.key)
                      /\ showDeleteSuccess' /\ deletedCountInfo' = 1
                      /\ UNCHANGED lastAlert
                   \/ /\ lastAlert' = deleteFailedAlert
                      /\ UNCHANGED <<files, showDeleteSuccess, deletedCountInfo,
                                     fileToDelete>>]_vars

\* C26 witness: two delete requests for the same key are in flight and the
\* dialog for that file is still open.
C26_Witness ==
    /\ Len(deletes) = 2 /\ deletes[1].file.key = deletes[2].file.key
    /\ fileToDelete # NullFile /\ fileToDelete.key = deletes[1].file.key
    /\ fileToDelete.key \in KeysOf(files)

-----------------------------------------------------------------------------
(* The bulk delete under a type filter: claims *)

\* A bulk delete is under way that was confirmed under a type filter.  (The
\* dialog covers the filter buttons until the call ends, so the filter is the
\* one it was confirmed under.)
TypedBulkDeleteRunning == BulkDeleteRunning /\ filter \in FileTypes

\* The step leaves every record of the list in it, unchanged, but those the
\* predicate holds for.
KeepsAllBut(Leaving(_)) ==
    \A i \in 1..Len(files) : ~Leaving(files[i]) => files[i] \in Range(files')

OfFilterType(file) == file.fileType = filter

\* C27 as stated: from the confirmation of a bulk delete under a type filter
\* to its completion, every record of another type stays in the list,
\* unchanged.
C27_Original ==
    [][TypedBulkDeleteRunning => KeepsAllBut(OfFilterType)]_vars

\* C27, amended: a bulk delete confirmed under a type filter holds files of
\* that type only and requests the deletion of files of its set only; none of
\* its steps takes a record of another type from the list or changes one.
\* While it runs a record of another type leaves the list only when a single
\* delete confirmed before it is answered, and then that record only.
C27_BulkDeleteKeepsOtherTypes ==
    /\ [](TypedBulkDeleteRunning =>
            /\ \A k \in 1..Len(bulkDelete.filesToDelete) :
                  bulkDelete.filesToDelete[k].fileType = filter
            /\ \A k \in 1..Len(bulkDelete.log) :
                  bulkDelete.log[k].key = bulkDelete.filesToDelete[k].key)
    /\ [][(TypedBulkDeleteRunning /\ Len(deletes') >= Len(deletes)) =>
            KeepsAllBut(OfFilterType)]_vars
    /\ [][(TypedBulkDeleteRunning /\ Len(deletes') < Len(deletes)) =>
            \E i \in 1..Len(deletes) :
                LET SingleDeleted(file) == file.key = deletes[i].file.key
                IN KeepsAllBut(SingleDeleted)]_vars

\* C27 witness: a bulk delete confirmed under the text filter has deleted the
\* text file and ended; the image is still in the list.
C27_Witness ==
    /\ bulkDelete.pc = "done" /\ filter = "text"
    /\ bulkDelete.log = <<[key |-> "d", success |-> TRUE]>>
    /\ Len(loadedFiles) = 2 /\ Len(files) = 1 /\ files[1].fileType = "image"
    /\ files[1] \in Range(loadedFiles)

-----------------------------------------------------------------------------
(* The text contents and the loading state: claims *)

\* The keys of the text files of a list.
TextKeys(fs) == KeysOf(textFilesOf(fs))

\* C28: where loading has ended without error, the text contents have an
\* entry for the key of every text file of the in-memory list.  While the
\* contents are fetched the list is published already and loading has not
\* ended; the contents are fetched one after another in the list's order (the
\* files stored and the files still to fetch make up the text files of the
\* list, no file in both), and nothing of the map is published before the
\* last one is stored.
C28_TextContentComplete ==
    /\ (~loading /\ error = Null) => TextKeys(files) \subseteq DOMAIN textContent
    /\ pcLoad = "texts" =>
          /\ loading /\ error = Null /\ files # <<>>
          /\ textContent = EmptyMap
          /\ textQueue # <<>>
          /\ \E n \in 0..Len(textFilesOf(files)) :
                /\ DOMAIN textContentMap = TextKeys(SubSeq(textFilesOf(files), 1, n))
                /\ textQueue = SubSeq(textFilesOf(files), n + 1, Len(textFilesOf(files)))
    /\ pcLoad = "done" => ~loading /\ textQueue = <<>> /\ textContent = textContentMap

\* C28 witness: a list of two text files is loaded; the content of the first
\* could not be fetched, that of the second could, and both have their entry.
C28_Witness ==
    /\ ~loading /\ error = Null /\ Len(files) = 2
    /\ TextKeys(files) = {"d", "m"}
    /\ textContent[files[1].key] = contentUnavailable
    /\ textContent[files[2].key] = "hello"

-----------------------------------------------------------------------------
(* The fallback of loadParticipants: claims *)

\* 'Hic JSON dosyasi bulunamadi'
noJsonFileFound == "Hic JSON dosyasi bulunamadi"

\* The list response of loadParticipants arrives.
ParticipantsListArrives == pcParticipants = "list" /\ pcParticipants' # "list"

\* C30: the fallback of loadParticipants is never entered.  Whenever no listed
\* file matches the name heuristic no listed file ends in '.json'; the list
\* response then ends the call without a content fetch, and with the
\* no-JSON-file-found message when the list was received (a list request that
\* fails leaves its own message, a refused one leaves the error as it was).
C30_FallbackUnreachable ==
    /\ [](pcParticipants # "jsonFallback")
    /\ [](findParticipantsFile(served) = NullFile => jsonFilesOf(served) = <<>>)
    /\ [][(ParticipantsListArrives /\ findParticipantsFile(served) = NullFile) =>
            /\ pcParticipants' = "done" /\ participantsFile' = NullFile
            /\ ~participantsLoading'
            /\ participantsError' \in
                  {noJsonFileFound, "Failed to fetch", "HTTP error! status: 500",
                   participantsError}]_vars

\* C30 witness: the list holds a text file only; loadParticipants has ended
\* without fetching a file, with the no-JSON-file-found message.
C30_Witness ==
    /\ Len(served) = 1 /\ served[1].key = "d"
    /\ findParticipantsFile(served) = NullFile
    /\ pcParticipants = "done" /\ participantsFile = NullFile
    /\ participantsError = noJsonFileFound /\ ~participantsLoading

====
